---- MODULE Spec2Model ----
(***************************************************************************)
(* Bond cashflow / pricing engine and date helpers of the securities       *)
(* worker (src/src/bondCalculations.js, the date helper exported from      *)
(* src/src/analyzeNNS_alt.js, and the chat variants in src/src/chat.js and *)
(* src/unnamed/part_009).                                                  *)
(* Further down: the business-day calendar of the date helper, the        *)
(* Nelder-Mead optimizer (src/src/index.js, src/unnamed/part_007) and the  *)
(* calibration objectives and entry points, each with its own state        *)
(* machine (CalendarSpec, OptimizerSpec, CalibrationSpec).                  *)
(*                                                                         *)
(* A JavaScript Date is modelled by its time value: a whole number of      *)
(* ticks since 1970-01-01T00:00Z, TicksPerDay ticks to the day.  The       *)
(* invalid Date (time value NaN) is NaNDate and the absent value (null) is *)
(* Null.  The worker runs with the UTC time zone, so the local-time        *)
(* accessors (getFullYear, getMonth, getDate, setMonth, setDate) read and  *)
(* write the UTC calendar fields.  Real numbers are exact rationals        *)
(* <<numerator, denominator>>.                                             *)
(***************************************************************************)
EXTENDS Integers, Sequences, FiniteSets, TLC

\* ------------------------------------------------------------------------
\* Bounds of the model
\* ------------------------------------------------------------------------
\* resolution of the time value: ticks per civil day
TicksPerDay == 2
\* reference dates are drawn within MaxDelta ticks of each anchor date
MaxDelta == 1

\* ------------------------------------------------------------------------
\* Values
\* ------------------------------------------------------------------------
\* two values below every time value the model reaches
NaNDate == -1000000000
Null == -1000000001

\* The value of a singleton set.  A value that is used more than once is
\* bound as the element of a singleton, { e(x) : x \in {value} }, which
\* computes it once, as the const declarations of the code do.
The(S) == CHOOSE x \in S : TRUE

\* date instanceof Date && !isNaN(date.getTime())
IsValidDate(d) == d > NaNDate

\* ------------------------------------------------------------------------
\* Exact rational arithmetic (JavaScript numbers without rounding error)
\* ------------------------------------------------------------------------
Abs(n) == IF n < 0 THEN -n ELSE n

RECURSIVE Gcd(_, _)
Gcd(a, b) == IF b = 0 THEN a ELSE The({ Gcd(b, r) : r \in {a % b} })

Rat(n, d) ==
    The({ The({ IF b < 0 THEN <<(-a) \div g, (-b) \div g>>
                ELSE <<a \div g, b \div g>> :
                g \in {Gcd(Abs(a), Abs(b))} }) :
          <<a, b>> \in {<<n, d>>} })

RInt(n) == <<n, 1>>
\* the number NaN, and the test isNaN / Number.isFinite
NaNNum == <<0, 0>>
IsFinite(x) == x[2] # 0
Sign(n) == IF n > 0 THEN 1 ELSE IF n < 0 THEN -1 ELSE 0
RAdd(x, y) ==
    The({ IF IsFinite(a) /\ IsFinite(b)
          THEN Rat(a[1] * b[2] + b[1] * a[2], a[2] * b[2])
          ELSE NaNNum :
          <<a, b>> \in {<<x, y>>} })
RMul(x, y) ==
    The({ IF IsFinite(a) /\ IsFinite(b)
          THEN Rat(a[1] * b[1], a[2] * b[2])
          ELSE NaNNum :
          <<a, b>> \in {<<x, y>>} })
\* x / y: a zero divisor gives NaN (0/0) or an infinity <<+-1, 0>>
RDiv(x, y) ==
    The({ IF ~(IsFinite(a) /\ IsFinite(b)) THEN NaNNum
          ELSE IF b[1] = 0 THEN <<Sign(a[1]), 0>>
          ELSE Rat(a[1] * b[2], a[2] * b[1]) :
          <<a, b>> \in {<<x, y>>} })
\* comparisons of numbers: false as soon as an operand is not finite
RLe(x, y) == IsFinite(x) /\ IsFinite(y) /\ x[1] * y[2] <= y[1] * x[2]
RLt(x, y) == IsFinite(x) /\ IsFinite(y) /\ x[1] * y[2] < y[1] * x[2]
RIsInt(x) == x[2] = 1

\* Math.round of the rational n/d (d > 0): nearest integer, halves upward
MathRound(x) == (2 * x[1] + x[2]) \div (2 * x[2])

\* ------------------------------------------------------------------------
\* The Date object: calendar fields of a time value
\* ------------------------------------------------------------------------
\* days since 1970-01-01 of the civil date y-m-d (m in 1..12)
DaysFromCivil(y, m, d) ==
    LET yy  == IF m <= 2 THEN y - 1 ELSE y
        era == yy \div 400
        yoe == yy - era * 400
        mp  == IF m > 2 THEN m - 3 ELSE m + 9
        doy == (153 * mp + 2) \div 5 + d - 1
        doe == yoe * 365 + yoe \div 4 - yoe \div 100 + doy
    IN  era * 146097 + doe - 719468

\* civil date [year, month (0-based, as getMonth), day] of a day number
CivilFromDays(z) ==
    The({ The({ LET doy == doe - (365 * yoe + yoe \div 4 - yoe \div 100)
                    mp  == (5 * doy + 2) \div 153
                    m   == IF mp < 10 THEN mp + 3 ELSE mp - 9
                IN  [year  |-> yoe + ((z + 719468) \div 146097) * 400
                                   + (IF m <= 2 THEN 1 ELSE 0),
                     month |-> m - 1,
                     day   |-> doy - (153 * mp + 2) \div 5 + 1] :
                yoe \in {(doe - doe \div 1460 + doe \div 36524
                             - doe \div 146096) \div 365} }) :
          doe \in {(z + 719468) % 146097} })

DayOf(t) == t \div TicksPerDay
TimeOfDay(t) == t % TicksPerDay
getFullYear(t) == CivilFromDays(DayOf(t)).year
getMonth(t) == CivilFromDays(DayOf(t)).month
getDate(t) == CivilFromDays(DayOf(t)).day

\* new Date(year, month, day): month is 0-based and may lie outside 0..11,
\* day may lie outside the month; both overflow into the neighbouring
\* months as the Date constructor does.  Midnight.
NewDate(year, month, day) ==
    (DaysFromCivil(year + month \div 12, (month % 12) + 1, 1) + day - 1)
        * TicksPerDay

\* new Date("YYYY-MM-DD"): UTC midnight of the civil date (m in 1..12)
YMD(y, m, d) == NewDate(y, m - 1, d)

\* date.setMonth(month): same year, day of month and time of day
setMonth(t, month) ==
    The({ NewDate(c.year, month, c.day) + TimeOfDay(t) :
          c \in {CivilFromDays(DayOf(t))} })

\* date.setDate(day): same year, month and time of day
setDate(t, day) ==
    The({ NewDate(c.year, c.month, day) + TimeOfDay(t) :
          c \in {CivilFromDays(DayOf(t))} })

\* relational operators on Dates: any comparison with NaN is false
DateLt(a, b) == IsValidDate(a) /\ IsValidDate(b) /\ a < b
DateLe(a, b) == IsValidDate(a) /\ IsValidDate(b) /\ a <= b
DateGt(a, b) == DateLt(b, a)
\* a.getTime() === b.getTime()
SameTime(a, b) == IsValidDate(a) /\ IsValidDate(b) /\ a = b

\* ------------------------------------------------------------------------
\* Date helper (src/src/analyzeNNS_alt.js)
\* ------------------------------------------------------------------------
\* new Date(year, month + 1, 0).getDate(): number of days of the month
LastDayOfMonth(year, month) == getDate(NewDate(year, month + 1, 0))

Min(a, b) == IF a <= b THEN a ELSE b

\* addMonthsSafe without the clamp to the last day of the month
addMonthsSafe_unclamped(date, months, targetDay) ==
    IF ~IsValidDate(date) THEN NaNDate
    ELSE The({ LET newMonth == IF total >= 12 THEN total % 12 ELSE total
                   newYear  == year + (IF total >= 12 THEN total \div 12 ELSE 0)
               IN  NewDate(newYear, newMonth, targetDay) :
               <<total, year>> \in
                   {<<getMonth(date) + months, getFullYear(date)>>} })

addMonthsSafe(date, months, targetDay) ==
    IF ~IsValidDate(date) THEN NaNDate
    ELSE The({ LET newMonth == IF total >= 12 THEN total % 12 ELSE total
                   newYear  == year + (IF total >= 12 THEN total \div 12 ELSE 0)
               IN  The({ NewDate(newYear, newMonth,
                                 Min(targetDay, lastDayOfMonth)) :
                         lastDayOfMonth \in
                             {LastDayOfMonth(newYear, newMonth)} }) :
               <<total, year>> \in
                   {<<getMonth(date) + months, getFullYear(date)>>} })

subtractMonthsSafe(date, months, targetDay) ==
    IF ~IsValidDate(date) THEN NaNDate
    ELSE The({ LET newMonth == IF total < 0 THEN total % 12 ELSE total
                   newYear  == year + (IF total < 0 THEN total \div 12 ELSE 0)
               IN  The({ NewDate(newYear, newMonth,
                                 Min(targetDay, lastDayOfMonth)) :
                         lastDayOfMonth \in
                             {LastDayOfMonth(newYear, newMonth)} }) :
               <<total, year>> \in
                   {<<getMonth(date) - months, getFullYear(date)>>} })

\* (endDate - startDate) / (1000 * 60 * 60 * 24): no validation, no rounding
daysBetween(startDate, endDate) ==
    IF IsValidDate(startDate) /\ IsValidDate(endDate)
    THEN Rat(endDate - startDate, TicksPerDay)
    ELSE NaNNum

addMonths(date, months) ==
    IF ~IsValidDate(date) THEN NaNDate
    ELSE The({ The({ IF getDate(result) # originalDay
                     THEN setDate(result, 0)
                     ELSE result :
                     result \in {setMonth(date, month + months)} }) :
               <<originalDay, month>> \in {<<getDate(date), getMonth(date)>>} })

subtractMonths(date, months) ==
    IF ~IsValidDate(date) THEN NaNDate
    ELSE The({ The({ IF getDate(result) # originalDay
                     THEN setDate(result, 0)
                     ELSE result :
                     result \in {setMonth(date, month - months)} }) :
               <<originalDay, month>> \in {<<getDate(date), getMonth(date)>>} })

\* daysBetween2 and the daysBetween of src/src/chat.js: validate, then round.
\* A thrown error is the record [ok |-> FALSE, error |-> ...].
daysBetween2(date1, date2) ==
    IF date1 = Null \/ date2 = Null
    THEN [ok |-> FALSE, error |-> "NotDateObjects"]
    ELSE IF ~IsValidDate(date1) \/ ~IsValidDate(date2)
    THEN [ok |-> FALSE, error |-> "InvalidDate"]
    ELSE IF DateLt(date2, date1)
    THEN [ok |-> FALSE, error |-> "InvalidDateRange"]
    ELSE [ok |-> TRUE, days |-> MathRound(Rat(date2 - date1, TicksPerDay))]

daysBetween_chat(date1, date2) == daysBetween2(date1, date2)

\* the daysBetween of src/unnamed/part_009: rounds, never throws
daysBetween_part009(date1, date2) ==
    IF IsValidDate(date1) /\ IsValidDate(date2)
    THEN RInt(MathRound(Rat(date2 - date1, TicksPerDay)))
    ELSE NaNNum

\* ------------------------------------------------------------------------
\* Coupon schedule (src/src/bondCalculations.js)
\* ------------------------------------------------------------------------
\* the safety bound on the number of generated coupon dates
MaxPeriods == 300

Throw(e) == [ok |-> FALSE, error |-> e]

\* The loops of generateCouponDates run up to MaxPeriods times.  Each loop is
\* a step on the loop's variables (status "run" while the loop continues),
\* and the loop is that step iterated; the iteration is split in halves so
\* that its evaluation nests only logarithmically deep.

\* ForwardStep stepping one month too far
ForwardStep_longStep(s, maturityDate, monthsPerPeriod) ==
    IF s.status # "run" THEN s
    ELSE IF ~DateLe(s.currentDate, maturityDate)
    THEN [s EXCEPT !.status = "done"]
    ELSE LET pushed == Append(s.couponDates, s.currentDate)
         IN  IF SameTime(s.currentDate, maturityDate)
             THEN [s EXCEPT !.couponDates = pushed, !.status = "done"]
             ELSE IF Len(pushed) > MaxPeriods
             THEN [s EXCEPT !.couponDates = pushed, !.status = "throw"]
             ELSE [currentDate |-> addMonths(s.currentDate, monthsPerPeriod + 1),
                   couponDates |-> pushed,
                   status      |-> "run"]

\* lines 83-97: one turn of the loop that builds forward from the first coupon
ForwardStep(s, maturityDate, monthsPerPeriod) ==
    IF s.status # "run" THEN s
    ELSE IF ~DateLe(s.currentDate, maturityDate)
    THEN [s EXCEPT !.status = "done"]
    ELSE LET pushed == Append(s.couponDates, s.currentDate)
         IN  IF SameTime(s.currentDate, maturityDate)
             THEN [s EXCEPT !.couponDates = pushed, !.status = "done"]
             ELSE IF Len(pushed) > MaxPeriods
             THEN [s EXCEPT !.couponDates = pushed, !.status = "throw"]
             ELSE [currentDate |-> addMonths(s.currentDate, monthsPerPeriod),
                   couponDates |-> pushed,
                   status      |-> "run"]

RECURSIVE ForwardLoop(_, _, _, _)
ForwardLoop(n, s, maturityDate, monthsPerPeriod) ==
    IF n = 0 \/ s.status # "run" THEN s
    ELSE IF n = 1 THEN ForwardStep(s, maturityDate, monthsPerPeriod)
    ELSE The({ The({ ForwardLoop(n - h, half, maturityDate, monthsPerPeriod) :
                     half \in {ForwardLoop(h, s, maturityDate, monthsPerPeriod)} }) :
               h \in {n \div 2} })

\* lines 80-97: build forward from the first coupon to maturity
ForwardDates(firstCouponDate, maturityDate, monthsPerPeriod) ==
    The({ IF s.status = "throw" THEN Throw("TooManyPeriods")
          ELSE [ok |-> TRUE, dates |-> s.couponDates] :
          s \in {ForwardLoop(MaxPeriods + 2,
                             [currentDate |-> firstCouponDate,
                              couponDates |-> <<>>,
                              status      |-> "run"],
                             maturityDate, monthsPerPeriod)} })

\* lines 112-115: one turn of the loop that prepends the quasi-coupon dates
PriorStep(s, referenceDate, monthsPerPeriod) ==
    IF s.status # "run" THEN s
    ELSE IF DateLt(s.priorDate, referenceDate) /\ Len(s.couponDates) < MaxPeriods
    THEN [priorDate   |-> subtractMonths(s.priorDate, monthsPerPeriod),
          couponDates |-> <<s.priorDate>> \o s.couponDates,
          status      |-> "run"]
    ELSE [s EXCEPT !.status = "done"]

RECURSIVE PriorLoop(_, _, _, _)
PriorLoop(n, s, referenceDate, monthsPerPeriod) ==
    IF n = 0 \/ s.status # "run" THEN s
    ELSE IF n = 1 THEN PriorStep(s, referenceDate, monthsPerPeriod)
    ELSE The({ The({ PriorLoop(n - h, half, referenceDate, monthsPerPeriod) :
                     half \in {PriorLoop(h, s, referenceDate, monthsPerPeriod)} }) :
               h \in {n \div 2} })

\* lines 104-121: extension backward when referenceDate precedes the first coupon
ExtendBackward(firstCouponDate, referenceDate, monthsPerPeriod, couponDates) ==
    IF Len(couponDates) > 0 /\ DateLt(referenceDate, couponDates[1])
    THEN The({ IF DateLt(p.priorDate, referenceDate)
               THEN <<p.priorDate>> \o p.couponDates
               ELSE p.couponDates :
               p \in {PriorLoop(MaxPeriods + 1,
                                [priorDate   |-> subtractMonths(firstCouponDate,
                                                                monthsPerPeriod),
                                 couponDates |-> couponDates,
                                 status      |-> "run"],
                                referenceDate, monthsPerPeriod)} })
    ELSE couponDates

\* lines 131-139: one turn of the loop that generates backward from maturity
BackwardStep(s, referenceDate, monthsPerPeriod) ==
    IF s.status # "run" THEN s
    ELSE IF ~(s.i < MaxPeriods) THEN [s EXCEPT !.status = "done"]
    ELSE The({ [currentDate |-> stepped,
                couponDates |-> <<stepped>> \o s.couponDates,
                i           |-> s.i + 1,
                status      |-> IF DateLt(stepped, referenceDate)
                                THEN "done" ELSE "run"] :
               stepped \in {subtractMonths(s.currentDate, monthsPerPeriod)} })

RECURSIVE BackwardLoop(_, _, _, _)
BackwardLoop(n, s, referenceDate, monthsPerPeriod) ==
    IF n = 0 \/ s.status # "run" THEN s
    ELSE IF n = 1 THEN BackwardStep(s, referenceDate, monthsPerPeriod)
    ELSE The({ The({ BackwardLoop(n - h, half, referenceDate, monthsPerPeriod) :
                     half \in {BackwardLoop(h, s, referenceDate, monthsPerPeriod)} }) :
               h \in {n \div 2} })

\* lines 127-139: no first coupon date, generate backward from maturity
BackwardDates(maturityDate, referenceDate, monthsPerPeriod) ==
    BackwardLoop(MaxPeriods + 1,
                 [currentDate |-> maturityDate,
                  couponDates |-> <<maturityDate>>,
                  i           |-> 0,
                  status      |-> "run"],
                 referenceDate, monthsPerPeriod).couponDates

\* lines 151-157: the indexes i with couponDates[i] <= ref < couponDates[i+1]
EnclosingIndexes(couponDates, referenceDate) ==
    {i \in 1..(Len(couponDates) - 1) :
        DateLe(couponDates[i], referenceDate)
            /\ DateGt(couponDates[i + 1], referenceDate)}

SetMin(S) == CHOOSE x \in S : \A y \in S : x <= y

\* FindPeriod with the two named errors exchanged
FindPeriod_errorsSwapped(couponDates, referenceDate, usedFirst) ==
    IF Len(couponDates) < 2 THEN Throw("UnableToDetermine")
    ELSE The({ IF found = {}
               THEN IF DateLt(referenceDate, couponDates[1])
                    THEN Throw("AfterMaturity")
                    ELSE IF DateGt(referenceDate, couponDates[Len(couponDates)])
                    THEN Throw("BeforeFirstCoupon")
                    ELSE Throw("UnableToFind")
               ELSE LET i == SetMin(found)
                        lastCoupon == couponDates[i]
                        nextCoupon == couponDates[i + 1]
                    IN  IF DateGt(lastCoupon, referenceDate)
                        THEN Throw("LastAfterReference")
                        ELSE IF DateLe(nextCoupon, referenceDate)
                        THEN Throw("NextNotAfterReference")
                        ELSE [ok |-> TRUE,
                              lastCoupon |-> lastCoupon,
                              nextCoupon |-> nextCoupon,
                              allCouponDates |-> couponDates,
                              usedFirstCouponDate |-> usedFirst,
                              totalCouponDates |-> Len(couponDates)] :
               found \in {EnclosingIndexes(couponDates, referenceDate)} })

\* FindPeriod with the end of the period taken one entry too far
FindPeriod_nextSkipped(couponDates, referenceDate, usedFirst) ==
    IF Len(couponDates) < 2 THEN Throw("UnableToDetermine")
    ELSE The({ IF found = {}
               THEN IF DateLt(referenceDate, couponDates[1])
                    THEN Throw("BeforeFirstCoupon")
                    ELSE IF DateGt(referenceDate, couponDates[Len(couponDates)])
                    THEN Throw("AfterMaturity")
                    ELSE Throw("UnableToFind")
               ELSE LET i == SetMin(found)
                        lastCoupon == couponDates[i]
                        nextCoupon == couponDates[Min(i + 2, Len(couponDates))]
                    IN  IF DateGt(lastCoupon, referenceDate)
                        THEN Throw("LastAfterReference")
                        ELSE IF DateLe(nextCoupon, referenceDate)
                        THEN Throw("NextNotAfterReference")
                        ELSE [ok |-> TRUE,
                              lastCoupon |-> lastCoupon,
                              nextCoupon |-> nextCoupon,
                              allCouponDates |-> couponDates,
                              usedFirstCouponDate |-> usedFirst,
                              totalCouponDates |-> Len(couponDates)] :
               found \in {EnclosingIndexes(couponDates, referenceDate)} })

\* lines 142-187: locate the period containing referenceDate
FindPeriod(couponDates, referenceDate, usedFirst) ==
    IF Len(couponDates) < 2 THEN Throw("UnableToDetermine")
    ELSE The({ IF found = {}
               THEN IF DateLt(referenceDate, couponDates[1])
                    THEN Throw("BeforeFirstCoupon")
                    ELSE IF DateGt(referenceDate, couponDates[Len(couponDates)])
                    THEN Throw("AfterMaturity")
                    ELSE Throw("UnableToFind")
               ELSE LET i == SetMin(found)
                        lastCoupon == couponDates[i]
                        nextCoupon == couponDates[i + 1]
                    IN  IF DateGt(lastCoupon, referenceDate)
                        THEN Throw("LastAfterReference")
                        ELSE IF DateLe(nextCoupon, referenceDate)
                        THEN Throw("NextNotAfterReference")
                        ELSE [ok |-> TRUE,
                              lastCoupon |-> lastCoupon,
                              nextCoupon |-> nextCoupon,
                              allCouponDates |-> couponDates,
                              usedFirstCouponDate |-> usedFirst,
                              totalCouponDates |-> Len(couponDates)] :
               found \in {EnclosingIndexes(couponDates, referenceDate)} })

\* lines 66-140: the list couponDates handed to the search
BuildCouponDates(maturityDate, firstCouponDate, frequency, referenceDate) ==
    IF maturityDate = Null THEN Throw("InvalidMaturity")
    ELSE IF firstCouponDate # Null /\ IsValidDate(firstCouponDate)
    THEN The({ IF ~fwd.ok THEN fwd
               \* couponDates[couponDates.length - 1] is undefined
               ELSE IF fwd.dates = <<>> THEN Throw("TypeError")
               ELSE The({ [ok |-> TRUE,
                           dates |-> ExtendBackward(firstCouponDate,
                                         referenceDate, 12 \div frequency,
                                         withMaturity)] :
                          withMaturity \in
                              {IF SameTime(fwd.dates[Len(fwd.dates)], maturityDate)
                               THEN fwd.dates
                               ELSE Append(fwd.dates, maturityDate)} }) :
               fwd \in {ForwardDates(firstCouponDate, maturityDate,
                                     12 \div frequency)} })
    ELSE [ok |-> TRUE,
          dates |-> BackwardDates(maturityDate, referenceDate,
                                  12 \div frequency)]

generateCouponDates(maturityDate, firstCouponDate, frequency, referenceDate) ==
    The({ IF ~built.ok THEN built
          ELSE FindPeriod(built.dates, referenceDate,
                          firstCouponDate # Null /\ IsValidDate(firstCouponDate)) :
          built \in {BuildCouponDates(maturityDate, firstCouponDate, frequency,
                                      referenceDate)} })

\* src/src/chat.js:344-477 is the same function, line for line
generateCouponDates_chat(maturityDate, firstCouponDate, frequency, settlementDate) ==
    generateCouponDates(maturityDate, firstCouponDate, frequency, settlementDate)

\* ------------------------------------------------------------------------
\* Parsing, formatting and rounding
\* ------------------------------------------------------------------------
\* A date string of a database record is modelled by the time value it
\* denotes; Null is the absent (null or empty) string and NaNDate a text
\* that is not a date.

\* parseDate: absent -> null, else new Date of the part before 'T'
parseDate(dateStr) ==
    IF dateStr = Null THEN Null
    ELSE IF ~IsValidDate(dateStr) THEN NaNDate
    ELSE DayOf(dateStr) * TicksPerDay

\* new Date(value): null is the epoch, an unparseable text the invalid Date
NewDateOf(value) ==
    IF value = Null THEN 0
    ELSE IF ~IsValidDate(value) THEN NaNDate
    ELSE value

\* formatDate: the UTC calendar day (as a day number), 'null' for no Date
formatDate(date) ==
    IF date = Null THEN [text |-> "null"] ELSE [day |-> DayOf(date)]

\* An absent number (null) is NullNum; parseFloat of it is NaN.
NullNum == <<>>
parseFloat(x) == IF x = NullNum THEN NaNNum ELSE x
\* x || 0 on numbers: NaN and 0 are falsy
OrZero(x) == IF x = NaNNum \/ x = RInt(0) THEN RInt(0) ELSE x

RECURSIVE Pow10(_)
Pow10(k) == IF k = 0 THEN 1 ELSE 10 * Pow10(k - 1)

\* floor(n * 10^k / d) and the remainder, one decimal digit at a time
RECURSIVE ShiftDigits(_, _, _, _)
ShiftDigits(q, r, d, k) ==
    IF k = 0 THEN <<q, r>>
    ELSE The({ ShiftDigits(q1, r1, d, k - 1) :
               <<q1, r1>> \in {<<q * 10 + (r * 10) \div d, (r * 10) % d>>} })

\* roundTo(num, decimals) == Math.round(num * 10^decimals) / 10^decimals
roundTo(num, decimals) ==
    IF ~IsFinite(num) THEN NaNNum
    ELSE The({ Rat(IF 2 * qr[2] >= num[2] THEN qr[1] + 1 ELSE qr[1],
                   Pow10(decimals)) :
               qr \in {ShiftDigits(num[1] \div num[2], num[1] % num[2],
                                   num[2], decimals)} })

\* ------------------------------------------------------------------------
\* Payment frequency (src/src/bondCalculations.js:12-30)
\* ------------------------------------------------------------------------
\* the absent (null or empty) string
NullStr == ""

\* frequencyStr.toLowerCase().includes(word) on the texts of the records
Includes(frequencyStr, word) ==
    word \in (CASE frequencyStr = "Annual"      -> {"annual"}
                [] frequencyStr = "Semi-Annual" -> {"annual", "semi"}
                [] frequencyStr = "Quarterly"   -> {"quarter"}
                [] frequencyStr = "Monthly"     -> {"month"}
                [] OTHER                        -> {})

getPaymentFrequency(frequencyStr) ==
    IF frequencyStr = NullStr THEN 2
    ELSE IF Includes(frequencyStr, "annual") /\ ~Includes(frequencyStr, "semi")
    THEN 1
    ELSE IF Includes(frequencyStr, "semi") THEN 2
    ELSE IF Includes(frequencyStr, "quarter") THEN 4
    ELSE IF Includes(frequencyStr, "month") THEN 12
    ELSE 2

determineFirstPaymentDate(firstPaymentDateStr, issueDate, frequency) ==
    The({ IF firstPaymentDate = Null \/ ~IsValidDate(firstPaymentDate)
          THEN addMonths(issueDate, 12 \div frequency)
          ELSE firstPaymentDate :
          firstPaymentDate \in {parseDate(firstPaymentDateStr)} })

\* ------------------------------------------------------------------------
\* Accrued interest (src/src/bondCalculations.js:200-297)
\* ------------------------------------------------------------------------
\* lines 205-214: one turn of the loop working backward from maturity
LastCouponStep(s, referenceDate, issueDate, monthsToSubtract, paymentDay) ==
    IF s.status # "run" THEN s
    ELSE IF ~DateGt(s.periodStart, referenceDate)
    THEN [s EXCEPT !.status = "done"]
    ELSE The({ IF DateLt(newPeriodStart, issueDate)
               THEN [periodStart |-> issueDate, status |-> "done"]
               ELSE [periodStart |-> newPeriodStart, status |-> "run"] :
               newPeriodStart \in {subtractMonthsSafe(s.periodStart,
                                       monthsToSubtract, paymentDay)} })

RECURSIVE LastCouponLoop(_, _, _, _, _, _)
LastCouponLoop(n, s, referenceDate, issueDate, monthsToSubtract, paymentDay) ==
    IF n = 0 \/ s.status # "run" THEN s
    ELSE IF n = 1 THEN LastCouponStep(s, referenceDate, issueDate, monthsToSubtract, paymentDay)
    ELSE The({ The({ LastCouponLoop(n - h, half, referenceDate, issueDate, monthsToSubtract, paymentDay) :
                     half \in {LastCouponLoop(h, s, referenceDate, issueDate, monthsToSubtract, paymentDay)} }) :
               h \in {n \div 2} })

\* a number of turns no loop stepping by whole months between a and b exceeds
TurnsBetween(a, b) ==
    IF IsValidDate(a) /\ IsValidDate(b) /\ a < b
    THEN (b - a) \div (28 * TicksPerDay) + 2
    ELSE 2

findLastCouponDate(maturity, referenceDate, issueDate, frequency, paymentDay) ==
    LastCouponLoop(TurnsBetween(referenceDate, maturity),
                   [periodStart |-> maturity, status |-> "run"],
                   referenceDate, issueDate, 12 \div frequency,
                   paymentDay).periodStart

\* calculateAccruedInterest counting the accrued days from the reference
\* date to the last coupon
calculateAccruedInterest_reversedDays(lastCouponDate, nextCouponDate, referenceDate, couponRate, frequency, faceValue) ==
    The({ [accruedInterest |-> RMul(RMul(couponPayment, faceValue), f),
           daysInPeriod    |-> daysInPeriod,
           daysAccrued     |-> daysAccrued,
           f               |-> f,
           couponPayment   |-> couponPayment] :
          <<daysInPeriod, daysAccrued, f, couponPayment>> \in
              {<<daysBetween(lastCouponDate, nextCouponDate),
                 daysBetween(referenceDate, lastCouponDate),
                 RDiv(daysBetween(referenceDate, lastCouponDate),
                      daysBetween(lastCouponDate, nextCouponDate)),
                 RDiv(couponRate, RInt(frequency))>>} })

calculateAccruedInterest(lastCouponDate, nextCouponDate, referenceDate, couponRate, frequency, faceValue) ==
    The({ [accruedInterest |-> RMul(RMul(couponPayment, faceValue), f),
           daysInPeriod    |-> daysInPeriod,
           daysAccrued     |-> daysAccrued,
           f               |-> f,
           couponPayment   |-> couponPayment] :
          <<daysInPeriod, daysAccrued, f, couponPayment>> \in
              {<<daysBetween(lastCouponDate, nextCouponDate),
                 daysBetween(lastCouponDate, referenceDate),
                 RDiv(daysBetween(lastCouponDate, referenceDate),
                      daysBetween(lastCouponDate, nextCouponDate)),
                 RDiv(couponRate, RInt(frequency))>>} })

calculateAccruedInterestFromDates(maturity, referenceDate, issueDate, frequency, couponAmount, paymentDay) ==
    The({ LET periodEnd    == addMonthsSafe(periodStart, 12 \div frequency,
                                            paymentDay)
              daysInPeriod == daysBetween(periodStart, periodEnd)
              daysAccrued  == daysBetween(periodStart, referenceDate)
          IN  IF RLt(RInt(0), daysInPeriod) /\ RLe(RInt(0), daysAccrued)
                  /\ RLe(daysAccrued, daysInPeriod)
              THEN RMul(couponAmount, RDiv(daysAccrued, daysInPeriod))
              ELSE RInt(0) :
          periodStart \in {findLastCouponDate(maturity, referenceDate, issueDate,
                                              frequency, paymentDay)} })

\* ------------------------------------------------------------------------
\* Cashflows (src/src/bondCalculations.js:310-366)
\* ------------------------------------------------------------------------
\* daysBetween(referenceDate, targetDate) / 365.25
calculateTerm(referenceDate, targetDate) ==
    RDiv(daysBetween(referenceDate, targetDate), Rat(1461, 4))

generateZeroCouponCashflows(maturity, referenceDate, faceValue) ==
    << [date   |-> maturity,
        term   |-> calculateTerm(referenceDate, maturity),
        amount |-> faceValue,
        type   |-> "Principal"] >>

\* lines 344-355: one turn of the loop over the coupon payments before maturity
CashflowStep(s, maturity, referenceDate, couponAmount, monthsToAdd, paymentDay) ==
    IF s.status # "run" THEN s
    ELSE IF ~DateLt(s.nextPaymentDate, maturity)
    THEN [s EXCEPT !.status = "done"]
    ELSE [nextPaymentDate |->
              addMonthsSafe(s.nextPaymentDate, monthsToAdd, paymentDay),
          cashflows |->
              IF DateGt(s.nextPaymentDate, referenceDate)
              THEN Append(s.cashflows,
                          [date   |-> s.nextPaymentDate,
                           term   |-> calculateTerm(referenceDate,
                                                    s.nextPaymentDate),
                           amount |-> couponAmount,
                           type   |-> "Coupon"])
              ELSE s.cashflows,
          status |-> "run"]

RECURSIVE CashflowLoop(_, _, _, _, _, _, _)
CashflowLoop(n, s, maturity, referenceDate, couponAmount, monthsToAdd, paymentDay) ==
    IF n = 0 \/ s.status # "run" THEN s
    ELSE IF n = 1 THEN CashflowStep(s, maturity, referenceDate, couponAmount, monthsToAdd, paymentDay)
    ELSE The({ The({ CashflowLoop(n - h, half, maturity, referenceDate, couponAmount, monthsToAdd, paymentDay) :
                     half \in {CashflowLoop(h, s, maturity, referenceDate, couponAmount, monthsToAdd, paymentDay)} }) :
               h \in {n \div 2} })

generateCouponCashflows(firstPaymentDate, maturity, referenceDate, couponAmount, faceValue, frequency) ==
    LET paymentDay == IF IsValidDate(firstPaymentDate)
                      THEN getDate(firstPaymentDate) ELSE 0
        coupons == CashflowLoop(TurnsBetween(firstPaymentDate, maturity),
                       [nextPaymentDate |-> firstPaymentDate,
                        cashflows       |-> <<>>,
                        status          |-> "run"],
                       maturity, referenceDate, couponAmount,
                       12 \div frequency, paymentDay).cashflows
    IN  Append(coupons,
               [date   |-> maturity,
                term   |-> calculateTerm(referenceDate, maturity),
                amount |-> RAdd(faceValue, couponAmount),
                type   |-> "Principal + Coupon"])

\* ------------------------------------------------------------------------
\* Pricing (src/src/bondCalculations.js:386-509)
\* ------------------------------------------------------------------------
BillType == "MARKET BASED BILL"
FaceValue == RInt(100)

\* the return value on the zero-coupon branch: prices are not rounded
BillPricing(cleanPrice) ==
    [ok |-> TRUE,
     clean_price      |-> cleanPrice,
     accrued_interest |-> RInt(0),
     dirty_price      |-> cleanPrice,
     f_offset         |-> RInt(0),
     calculation_details |-> [security_type |-> "Bill (Zero Coupon)"]]

\* the return value on the coupon branch
CouponPricing(cleanPrice, accruedInterest, f, ratePercent, frequency, couponPayment, lastCouponDate, nextCouponDate, daysInPeriod, daysAccrued) ==
    [ok |-> TRUE,
     clean_price      |-> roundTo(cleanPrice, 6),
     accrued_interest |-> roundTo(accruedInterest, 6),
     dirty_price      |-> roundTo(RAdd(cleanPrice, accruedInterest), 6),
     f_offset         |-> roundTo(f, 8),
     calculation_details |->
        [coupon_rate_percent       |-> roundTo(ratePercent, 3),
         payment_frequency         |-> frequency,
         coupon_payment_per_period |-> roundTo(couponPayment, 6),
         last_coupon_date          |-> formatDate(lastCouponDate),
         next_coupon_date          |-> formatDate(nextCouponDate),
         days_in_period            |-> daysInPeriod,
         days_accrued              |-> daysAccrued]]

\* params: cleanPrice, couponRate (decimal), securityType, maturityDate,
\* referenceDate, firstCouponDate, frequency
calculatePricing(params) ==
    IF params.securityType = BillType \/ params.couponRate = RInt(0)
    THEN BillPricing(params.cleanPrice)
    ELSE The({ IF ~couponDates.ok THEN couponDates
               ELSE The({ CouponPricing(params.cleanPrice,
                              accruedCalc.accruedInterest, accruedCalc.f,
                              RMul(params.couponRate, RInt(100)),
                              params.frequency, accruedCalc.couponPayment,
                              couponDates.lastCoupon, couponDates.nextCoupon,
                              accruedCalc.daysInPeriod,
                              accruedCalc.daysAccrued) :
                          accruedCalc \in {calculateAccruedInterest(
                              couponDates.lastCoupon, couponDates.nextCoupon,
                              params.referenceDate, params.couponRate,
                              params.frequency, FaceValue)} }) :
               couponDates \in {generateCouponDates(params.maturityDate,
                                    params.firstCouponDate, params.frequency,
                                    params.referenceDate)} })

\* sec: a database record with cleanPrice, maturityDate, issueDate,
\* interestPaymentFrequency, interestRate (percent), firstInterestPaymentDate
generateCashflowsAndPrice(sec, referenceDate) ==
    LET cleanPrice == OrZero(parseFloat(sec.cleanPrice))
        maturity   == NewDateOf(sec.maturityDate)
        issueDate  == NewDateOf(sec.issueDate)
    IN  IF sec.interestPaymentFrequency = "None" \/ sec.interestRate = NullNum
        THEN [ok |-> TRUE,
              cashflows  |-> generateZeroCouponCashflows(maturity, referenceDate,
                                                         FaceValue),
              dirtyPrice |-> cleanPrice]
        ELSE LET couponRateAnnual == RDiv(parseFloat(sec.interestRate), RInt(100))
                 frequency == getPaymentFrequency(sec.interestPaymentFrequency)
             IN  The({ The({ IF ~couponDates.ok THEN couponDates
                             ELSE [ok |-> TRUE,
                                   cashflows |-> generateCouponCashflows(
                                       firstPaymentDate, maturity, referenceDate,
                                       RDiv(RMul(couponRateAnnual, FaceValue),
                                            RInt(frequency)),
                                       FaceValue, frequency),
                                   dirtyPrice |-> RAdd(cleanPrice,
                                       calculateAccruedInterest(
                                           couponDates.lastCoupon,
                                           couponDates.nextCoupon, referenceDate,
                                           couponRateAnnual, frequency,
                                           FaceValue).accruedInterest)] :
                             couponDates \in {generateCouponDates(maturity,
                                 firstPaymentDate, frequency, referenceDate)} }) :
                       firstPaymentDate \in {determineFirstPaymentDate(
                           sec.firstInterestPaymentDate, issueDate, frequency)} })

\* ------------------------------------------------------------------------
\* The chat variants of calculatePricing (src/src/chat.js:287-342 and
\* src/unnamed/part_009:147-202): price row and issue row, rate in percent
\* ------------------------------------------------------------------------
\* a || b on numbers and on date strings
OrNum(a, b) == IF a = NullNum \/ a = NaNNum \/ a = RInt(0) THEN b ELSE a
OrDateStr(a, b) == IF a = Null THEN b ELSE a

\* src/unnamed/part_009:204-265 is generateCouponDates without the two
\* checks after the search, which no found period fails
generateCouponDates_part009(maturityDate, firstCouponDate, frequency, settlementDate) ==
    generateCouponDates(maturityDate, firstCouponDate, frequency, settlementDate)

calculatePricing_chat(price, issue, settlementDate) ==
    LET couponRate == parseFloat(OrNum(price.rate, OrNum(issue.interestRate,
                                                         RInt(0))))
        cleanPrice == parseFloat(OrNum(price.sell, OrNum(issue.pricePer100, RInt(0))))
    IN  IF price.security_type = BillType \/ couponRate = RInt(0)
        THEN BillPricing(cleanPrice)
        ELSE LET frequency == getPaymentFrequency(issue.interestPaymentFrequency)
                 maturityDate == parseDate(OrDateStr(price.maturity_date,
                                                     issue.maturityDate))
                 firstCouponDate ==
                     IF issue.firstInterestPaymentDate # Null
                     THEN parseDate(issue.firstInterestPaymentDate)
                     ELSE Null
             IN  The({ IF ~couponDates.ok THEN couponDates
                       ELSE The({ IF ~daysInPeriod.ok THEN daysInPeriod
                                 ELSE IF ~daysAccrued.ok THEN daysAccrued
                                 ELSE LET f == RDiv(RInt(daysAccrued.days),
                                                    RInt(daysInPeriod.days))
                                          couponPayment ==
                                              RDiv(couponRate, RInt(frequency))
                                      IN  CouponPricing(cleanPrice,
                                              RMul(couponPayment, f), f, couponRate,
                                              frequency, couponPayment,
                                              couponDates.lastCoupon,
                                              couponDates.nextCoupon,
                                              RInt(daysInPeriod.days),
                                              RInt(daysAccrued.days)) :
                                 <<daysInPeriod, daysAccrued>> \in
                                     {<<daysBetween_chat(couponDates.lastCoupon,
                                                        couponDates.nextCoupon),
                                        daysBetween_chat(couponDates.lastCoupon,
                                                        settlementDate)>>} }) :
                       couponDates \in {generateCouponDates_chat(maturityDate,
                           firstCouponDate, frequency, settlementDate)} })

calculatePricing_part009(price, issue, settlementDate) ==
    LET couponRate == parseFloat(OrNum(price.rate, OrNum(issue.interestRate,
                                                         RInt(0))))
        cleanPrice == parseFloat(OrNum(issue.pricePer100, OrNum(price.buy, RInt(0))))
    IN  IF price.security_type = BillType \/ couponRate = RInt(0)
        THEN BillPricing(cleanPrice)
        ELSE LET frequency == getPaymentFrequency(issue.interestPaymentFrequency)
                 maturityDate == parseDate(OrDateStr(price.maturity_date,
                                                     issue.maturityDate))
                 firstCouponDate ==
                     IF issue.firstInterestPaymentDate # Null
                     THEN parseDate(issue.firstInterestPaymentDate)
                     ELSE Null
             IN  The({ IF ~couponDates.ok THEN couponDates
                       ELSE The({ LET f == RDiv(daysAccrued, daysInPeriod)
                                     couponPayment ==
                                         RDiv(couponRate, RInt(frequency))
                                 IN  CouponPricing(cleanPrice,
                                         RMul(RMul(couponPayment, RInt(100)), f), f,
                                         couponRate, frequency, couponPayment,
                                         couponDates.lastCoupon,
                                         couponDates.nextCoupon,
                                         daysInPeriod, daysAccrued) :
                                 <<daysInPeriod, daysAccrued>> \in
                                     {<<daysBetween_part009(couponDates.lastCoupon,
                                                           couponDates.nextCoupon),
                                        daysBetween_part009(couponDates.lastCoupon,
                                                           settlementDate)>>} }) :
                       couponDates \in {generateCouponDates_part009(maturityDate,
                           firstCouponDate, frequency, settlementDate)} })

\* ------------------------------------------------------------------------
\* The caller of calculatePricing (src/unnamed/part_008:80-98) turns the
\* price row and the issue row into the parameters, the rate as a decimal
\* ------------------------------------------------------------------------
PricingParams(price, issue, settlementDate) ==
    [cleanPrice      |-> parseFloat(OrNum(issue.pricePer100,
                                          OrNum(price.buy, RInt(0)))),
     couponRate      |-> RDiv(parseFloat(OrNum(price.rate,
                                 OrNum(issue.interestRate, RInt(0)))),
                              RInt(100)),
     securityType    |-> price.security_type,
     maturityDate    |-> parseDate(OrDateStr(price.maturity_date,
                                             issue.maturityDate)),
     referenceDate   |-> settlementDate,
     firstCouponDate |-> IF issue.firstInterestPaymentDate # Null
                         THEN parseDate(issue.firstInterestPaymentDate)
                         ELSE Null,
     frequency       |-> getPaymentFrequency(issue.interestPaymentFrequency)]

\* ------------------------------------------------------------------------
\* Inputs: securities and reference dates
\* ------------------------------------------------------------------------
\* schedule terms: maturity, first interest payment date, issue date
Schedules ==
    { \* the 4% note of the reference scenario
      [maturityDate |-> YMD(2034, 2, 15), first |-> YMD(2024, 8, 15),
       issueDate |-> YMD(2024, 2, 15)],
      \* no first payment date on record, issued on the schedule
      [maturityDate |-> YMD(2034, 2, 15), first |-> Null,
       issueDate |-> YMD(2024, 2, 15)],
      \* no first payment date on record, issued off the schedule
      [maturityDate |-> YMD(2034, 2, 15), first |-> Null,
       issueDate |-> YMD(2024, 3, 1)],
      \* a first payment date that does not parse
      [maturityDate |-> YMD(2034, 2, 15), first |-> NaNDate,
       issueDate |-> YMD(2024, 2, 15)],
      \* month-end coupons
      [maturityDate |-> YMD(2027, 2, 28), first |-> YMD(2024, 8, 31),
       issueDate |-> YMD(2024, 2, 29)],
      \* maturity off the semi-annual schedule of the first coupon
      [maturityDate |-> YMD(2026, 5, 15), first |-> YMD(2024, 8, 15),
       issueDate |-> YMD(2024, 5, 15)],
      \* first payment date after maturity, and at maturity
      [maturityDate |-> YMD(2024, 5, 15), first |-> YMD(2024, 8, 15),
       issueDate |-> YMD(2024, 2, 15)],
      [maturityDate |-> YMD(2024, 8, 15), first |-> YMD(2024, 8, 15),
       issueDate |-> YMD(2024, 2, 15)],
      \* a maturity date that does not parse
      [maturityDate |-> NaNDate, first |-> YMD(2024, 8, 15),
       issueDate |-> YMD(2024, 2, 15)],
      \* an issue date that does not parse, no first payment date on record
      [maturityDate |-> YMD(2034, 2, 15), first |-> Null,
       issueDate |-> NaNDate] }

\* 25-year schedules: 300 and 301 monthly periods
LongSchedules ==
    { [maturityDate |-> YMD(2050, 1, 15), first |-> YMD(2025, 1, 15),
       issueDate |-> YMD(2024, 12, 15)],
      [maturityDate |-> YMD(2050, 2, 15), first |-> YMD(2025, 1, 15),
       issueDate |-> YMD(2024, 12, 15)],
      [maturityDate |-> YMD(2050, 1, 15), first |-> Null,
       issueDate |-> YMD(2024, 12, 15)] }

\* security type, coupon rate in percent (absent for bills), frequency text
CouponTerms ==
    { [securityType |-> "MARKET BASED NOTE", interestRate |-> RInt(4),
       interestPaymentFrequency |-> fq] :
        fq \in {"Annual", "Semi-Annual", "Quarterly", "Monthly"} }
ZeroCouponTerms ==
    { [securityType |-> BillType, interestRate |-> NullNum,
       interestPaymentFrequency |-> "None"],
      [securityType |-> BillType, interestRate |-> RInt(0),
       interestPaymentFrequency |-> "None"],
      [securityType |-> BillType, interestRate |-> NullNum,
       interestPaymentFrequency |-> NullStr],
      [securityType |-> BillType, interestRate |-> RInt(0),
       interestPaymentFrequency |-> "Semi-Annual"],
      [securityType |-> "MARKET BASED NOTE", interestRate |-> RInt(0),
       interestPaymentFrequency |-> "Semi-Annual"] }
\* the schedules on which the zero-coupon terms are tried
ZeroCouponSchedules ==
    { sc \in Schedules :
        /\ sc.maturityDate \in {YMD(2034, 2, 15), NaNDate}
        /\ sc.first # NaNDate }
CleanPrices == {Rat(197, 2)}

Security(tm, sc, cp) ==
    [securityType             |-> tm.securityType,
     interestRate             |-> tm.interestRate,
     interestPaymentFrequency |-> tm.interestPaymentFrequency,
     cleanPrice               |-> cp,
     maturityDate             |-> sc.maturityDate,
     firstInterestPaymentDate |-> sc.first,
     issueDate                |-> sc.issueDate]

Securities ==
    { Security(tm, sc, cp) : tm \in CouponTerms, sc \in Schedules,
                             cp \in CleanPrices }
    \cup { Security(tm, sc, cp) :
               tm \in {t \in CouponTerms : t.interestPaymentFrequency = "Monthly"},
               sc \in LongSchedules, cp \in CleanPrices }
    \cup { Security(tm, sc, cp) : tm \in ZeroCouponTerms,
                                  sc \in ZeroCouponSchedules,
                                  cp \in CleanPrices }

\* the row of the prices table and the row of the securities table
PriceRow(s) ==
    [rate |-> s.interestRate, sell |-> s.cleanPrice, buy |-> s.cleanPrice,
     security_type |-> s.securityType, maturity_date |-> s.maturityDate]
IssueRow(s) ==
    [interestRate |-> s.interestRate, pricePer100 |-> s.cleanPrice,
     interestPaymentFrequency |-> s.interestPaymentFrequency,
     maturityDate |-> s.maturityDate,
     firstInterestPaymentDate |-> s.firstInterestPaymentDate]

AnchorDates ==
    { YMD(2025, 11, 19), YMD(2024, 8, 15), YMD(2024, 2, 15), YMD(2023, 11, 10),
      YMD(2034, 2, 15), YMD(2025, 1, 15) }
ReferenceDates == { a + k : a \in AnchorDates, k \in (-MaxDelta)..MaxDelta }

\* ------------------------------------------------------------------------
\* State: one security and reference date, and the result of each function
\* applied to them.  The date helper, the optimizer and the calibration entry
\* points share no state with the pricing engine; each has its own variable
\* and its own specification below, and stays empty in the others.
\* ------------------------------------------------------------------------
VARIABLES sec, referenceDate, results, calendar, optimizer, calibration

vars == <<sec, referenceDate, results, calendar, optimizer, calibration>>

Functions ==
    {"generateCouponDates", "calculatePricing",
     "calculatePricing_chat", "calculatePricing_part009",
     "generateCashflowsAndPrice", "calculateAccruedInterest",
     "calculateAccruedInterestFromDates", "daysBetween", "daysBetween2",
     "daysBetween_chat", "fetchMarketData"}

Pending == [ok |-> FALSE, error |-> "Pending"]
Applied(fn) == results[fn] # Pending
Returned(fn) == results[fn].ok
Threw(fn) == Applied(fn) /\ ~results[fn].ok

\* the functions a request may apply next to fn: the two pricing paths of
\* one record, and the accrual over the period generateCouponDates found
Companions(fn) ==
    IF fn = "calculatePricing" THEN {"generateCashflowsAndPrice"}
    ELSE IF fn = "generateCashflowsAndPrice" THEN {"calculatePricing"}
    ELSE IF fn = "calculateAccruedInterest" THEN {"generateCouponDates"}
    ELSE {}

\* a request applies one function; the two pricing paths may both be applied
CanApply(fn) ==
    /\ ~Applied(fn)
    /\ \A g \in Functions : Applied(g) => g \in Companions(fn)

Store(fn, value) ==
    /\ results' = [results EXCEPT ![fn] = value]
    /\ UNCHANGED <<sec, referenceDate, calendar, optimizer, calibration>>

\* the arguments the callers derive from the record
FirstCouponDate == PricingParams(PriceRow(sec), IssueRow(sec), referenceDate).firstCouponDate
MaturityDate == PricingParams(PriceRow(sec), IssueRow(sec), referenceDate).maturityDate
Frequency == PricingParams(PriceRow(sec), IssueRow(sec), referenceDate).frequency

Init ==
    /\ sec \in Securities
    /\ referenceDate \in ReferenceDates
    /\ results = [fn \in Functions |-> Pending]
    /\ calendar = <<>>
    /\ optimizer = <<>>
    /\ calibration = <<>>

GenerateCouponDates ==
    /\ CanApply("generateCouponDates")
    /\ Store("generateCouponDates",
             generateCouponDates(MaturityDate, FirstCouponDate, Frequency,
                                 referenceDate))

CalculatePricing ==
    /\ CanApply("calculatePricing")
    /\ Store("calculatePricing",
             calculatePricing(PricingParams(PriceRow(sec), IssueRow(sec),
                                            referenceDate)))

CalculatePricingChat ==
    /\ CanApply("calculatePricing_chat")
    /\ Store("calculatePricing_chat",
             calculatePricing_chat(PriceRow(sec), IssueRow(sec), referenceDate))

CalculatePricingPart009 ==
    /\ CanApply("calculatePricing_part009")
    /\ Store("calculatePricing_part009",
             calculatePricing_part009(PriceRow(sec), IssueRow(sec),
                                      referenceDate))

GenerateCashflowsAndPrice ==
    /\ CanApply("generateCashflowsAndPrice")
    /\ Store("generateCashflowsAndPrice",
             generateCashflowsAndPrice(sec, referenceDate))

\* fetchMarketData of src/src/analyzeNNS.js:78-112 (the same in
\* src/unnamed/part_004:73-110) on a query that returns the record sec, today
\* being referenceDate: a record whose maturity or issue date is not a date
\* is skipped, an error of generateCashflowsAndPrice ends the fetch, and the
\* bond is pushed when it has a cashflow
FetchMarketData ==
    /\ CanApply("fetchMarketData")
    /\ Store("fetchMarketData",
             IF \/ ~IsValidDate(NewDateOf(sec.maturityDate))
                \/ ~IsValidDate(NewDateOf(sec.issueDate))
             THEN [ok |-> TRUE, marketData |-> <<>>]
             ELSE The({ IF ~r.ok THEN r
                        ELSE [ok |-> TRUE,
                              marketData |->
                                  IF Len(r.cashflows) > 0
                                  THEN << [price     |-> r.dirtyPrice,
                                           cashflows |-> r.cashflows] >>
                                  ELSE <<>>] :
                        r \in {generateCashflowsAndPrice(sec, referenceDate)} }))

\* calculateAccruedInterest over the period generateCouponDates returned
\* (src/src/bondCalculations.js:410-422)
CalculateAccruedInterest ==
    /\ CanApply("calculateAccruedInterest")
    /\ Returned("generateCouponDates")
    /\ LET p == PricingParams(PriceRow(sec), IssueRow(sec), referenceDate)
           a == calculateAccruedInterest(
                    results["generateCouponDates"].lastCoupon,
                    results["generateCouponDates"].nextCoupon,
                    referenceDate, p.couponRate, p.frequency, FaceValue)
       IN  Store("calculateAccruedInterest",
                 [ok |-> TRUE, value |-> a, couponRate |-> p.couponRate])

\* day of month of the coupon payments handed to the date-based accrual
PaymentDays == {1, 15, 31}

CalculateAccruedInterestFromDates ==
    /\ CanApply("calculateAccruedInterestFromDates")
    /\ \E paymentDay \in PaymentDays :
          LET p == PricingParams(PriceRow(sec), IssueRow(sec), referenceDate)
              couponAmount == RDiv(RMul(p.couponRate, FaceValue),
                                   RInt(p.frequency))
          IN  Store("calculateAccruedInterestFromDates",
                    [ok |-> TRUE,
                     value |-> calculateAccruedInterestFromDates(
                                   p.maturityDate, referenceDate,
                                   NewDateOf(sec.issueDate), p.frequency,
                                   couponAmount, paymentDay),
                     couponAmount |-> couponAmount,
                     paymentDay |-> paymentDay])

\* the pairs of dates handed to the day-count functions
DatePairs ==
    { <<referenceDate, MaturityDate>>, <<MaturityDate, referenceDate>>,
      <<referenceDate, referenceDate>>, <<NaNDate, referenceDate>> }

DaysBetween ==
    /\ CanApply("daysBetween")
    /\ \E d \in DatePairs :
          Store("daysBetween",
                [ok |-> TRUE, value |-> daysBetween(d[1], d[2]),
                 d1 |-> d[1], d2 |-> d[2]])

DaysBetween2 ==
    /\ CanApply("daysBetween2")
    /\ \E d \in DatePairs :
          Store("daysBetween2",
                [call |-> daysBetween2(d[1], d[2]), d1 |-> d[1], d2 |-> d[2],
                 ok |-> daysBetween2(d[1], d[2]).ok])

DaysBetweenChat ==
    /\ CanApply("daysBetween_chat")
    /\ \E d \in DatePairs :
          Store("daysBetween_chat",
                [call |-> daysBetween_chat(d[1], d[2]), d1 |-> d[1], d2 |-> d[2],
                 ok |-> daysBetween_chat(d[1], d[2]).ok])

Next ==
    \/ CalculateAccruedInterest
    \/ CalculateAccruedInterestFromDates
    \/ DaysBetween
    \/ DaysBetween2
    \/ DaysBetweenChat
    \/ GenerateCouponDates
    \/ CalculatePricing
    \/ CalculatePricingChat
    \/ CalculatePricingPart009
    \/ GenerateCashflowsAndPrice
    \/ FetchMarketData

Spec == Init /\ [][Next]_vars

\* ------------------------------------------------------------------------
\* Properties
\* ------------------------------------------------------------------------
CouponDatesResult == results["generateCouponDates"]

\* the entries i of a list with list[i] = a and list[i + 1] = b
AdjacentAt(list, a, b) ==
    {i \in 1..(Len(list) - 1) : list[i] = a /\ list[i + 1] = b}

\* C1: whenever generateCouponDates returns, lastCoupon <= referenceDate <
\* nextCoupon and the two are adjacent entries of allCouponDates; the period
\* the chat variant resolves encloses the settlement day as well.
EnclosingPeriod ==
    /\ Returned("generateCouponDates") =>
          /\ CouponDatesResult.lastCoupon <= referenceDate
          /\ referenceDate < CouponDatesResult.nextCoupon
          /\ AdjacentAt(CouponDatesResult.allCouponDates,
                        CouponDatesResult.lastCoupon,
                        CouponDatesResult.nextCoupon) # {}
    /\ (Returned("calculatePricing_chat")
          /\ results["calculatePricing_chat"].accrued_interest # RInt(0)) =>
          LET d == results["calculatePricing_chat"].calculation_details
          IN  /\ d.last_coupon_date.day <= DayOf(referenceDate)
              /\ DayOf(referenceDate) < d.next_coupon_date.day

\* a period strictly inside a schedule anchored at the first coupon date
EnclosingPeriodWitness ==
    /\ Returned("generateCouponDates")
    /\ CouponDatesResult.usedFirstCouponDate
    /\ CouponDatesResult.lastCoupon < referenceDate
    /\ CouponDatesResult.nextCoupon # MaturityDate
    /\ CouponDatesResult.lastCoupon # FirstCouponDate

\* C2: for every referenceDate earlier than a valid firstCouponDate (the
\* schedule itself being well formed: first coupon before maturity, no
\* more than MaxPeriods periods) generateCouponDates returns a period with
\* lastCoupon <= referenceDate < nextCoupon instead of failing.
BackwardExtension ==
    (/\ Applied("generateCouponDates")
     /\ IsValidDate(FirstCouponDate)
     /\ DateLt(referenceDate, FirstCouponDate)
     /\ DateLt(FirstCouponDate, MaturityDate)
     /\ ~(Threw("generateCouponDates")
            /\ CouponDatesResult.error = "TooManyPeriods"))
        => /\ Returned("generateCouponDates")
           /\ CouponDatesResult.lastCoupon <= referenceDate
           /\ referenceDate < CouponDatesResult.nextCoupon

MonthsPerPeriod == 12 \div Frequency

\* C3 as stated: for every period generateCouponDates returns, nextCoupon is
\* lastCoupon advanced by 12/frequency months with month-end clamping,
\* the last period ending at maturity included.
OnePeriodApart ==
    Returned("generateCouponDates") =>
        CouponDatesResult.nextCoupon =
            addMonths(CouponDatesResult.lastCoupon, MonthsPerPeriod)

\* the returned period was generated by stepping backward: the schedule has
\* no valid first coupon date, or the period ends at or before it
SteppedBackward ==
    \/ ~CouponDatesResult.usedFirstCouponDate
    \/ CouponDatesResult.nextCoupon <= FirstCouponDate

\* the returned period is the last one of a schedule anchored at the first
\* coupon date whose maturity is not one of its dates
MaturityStub ==
    /\ CouponDatesResult.usedFirstCouponDate
    /\ CouponDatesResult.nextCoupon = MaturityDate
    /\ addMonths(CouponDatesResult.lastCoupon, MonthsPerPeriod) # MaturityDate

\* C3 amended: a period generated forward from the first coupon date has
\* nextCoupon = lastCoupon advanced by 12/frequency months, except the
\* last period when maturity is off the schedule, which ends at maturity
\* before that date; a period generated backward has lastCoupon = nextCoupon
\* stepped back by 12/frequency months.
OnePeriodApartAmended ==
    Returned("generateCouponDates") =>
        IF SteppedBackward
        THEN CouponDatesResult.lastCoupon =
                 subtractMonths(CouponDatesResult.nextCoupon, MonthsPerPeriod)
        ELSE IF MaturityStub
        THEN /\ CouponDatesResult.lastCoupon < MaturityDate
             /\ MaturityDate <
                    addMonths(CouponDatesResult.lastCoupon, MonthsPerPeriod)
        ELSE CouponDatesResult.nextCoupon =
                 addMonths(CouponDatesResult.lastCoupon, MonthsPerPeriod)

\* the last, shorter period of a schedule whose maturity is off the schedule
OnePeriodApartWitness ==
    /\ Returned("generateCouponDates")
    /\ ~SteppedBackward
    /\ MaturityStub

\* the list generateCouponDates searches, when it gets that far
Built ==
    BuildCouponDates(MaturityDate, FirstCouponDate, Frequency, referenceDate)
Searched == Applied("generateCouponDates") /\ Built.ok

ScheduleOverflow ==
    /\ Returned("generateCouponDates") =>
          CouponDatesResult.totalCouponDates - 1 <= MaxPeriods
    /\ (Threw("generateCouponDates")
          /\ ~(FirstCouponDate # Null /\ IsValidDate(FirstCouponDate))) =>
          CouponDatesResult.error # "BeforeFirstCoupon"

AccruedResult == results["calculateAccruedInterest"]
AccruedFromDatesResult == results["calculateAccruedInterestFromDates"]

\* C6: for every period generateCouponDates produced and the reference date
\* inside it, calculateAccruedInterest has daysInPeriod > 0 and
\* 0 <= daysAccrued < daysInPeriod, hence 0 <= accruedInterest <=
\* couponPayment * faceValue; calculateAccruedInterestFromDates never returns
\* a value outside [0, couponAmount].
AccruedWithinCoupon ==
    /\ Returned("calculateAccruedInterest") =>
          LET v == AccruedResult.value
          IN  /\ RLt(RInt(0), v.daysInPeriod)
              /\ RLe(RInt(0), v.daysAccrued)
              /\ RLt(v.daysAccrued, v.daysInPeriod)
              /\ RLe(RInt(0), v.accruedInterest)
              /\ RLe(v.accruedInterest, RMul(v.couponPayment, FaceValue))
    /\ Returned("calculateAccruedInterestFromDates") =>
          /\ RLe(RInt(0), AccruedFromDatesResult.value)
          /\ RLe(AccruedFromDatesResult.value,
                 AccruedFromDatesResult.couponAmount)

\* interest accrued over part of a period of a coupon-bearing note
AccruedWithinCouponWitness ==
    /\ Returned("calculateAccruedInterest")
    /\ RLt(RInt(0), AccruedResult.value.accruedInterest)
    /\ RLt(AccruedResult.value.accruedInterest,
           RMul(AccruedResult.value.couponPayment, FaceValue))

\* zero-coupon: bill security type, coupon rate 0, payment frequency 'None'
\* or no interest rate
IsZeroCoupon ==
    \/ sec.securityType = BillType
    \/ sec.interestRate = RInt(0)
    \/ sec.interestRate = NullNum
    \/ sec.interestPaymentFrequency = "None"

\* C7: for every zero-coupon security and every reference date before
\* maturity, calculatePricing and generateCashflowsAndPrice both return
\* accrued interest 0 and a dirty price equal to the clean price, without
\* generating a coupon schedule (the only cashflow is the principal).
ZeroCouponPricing ==
    (IsZeroCoupon /\ DateLt(referenceDate, MaturityDate)) =>
        /\ Applied("calculatePricing") =>
              /\ Returned("calculatePricing")
              /\ results["calculatePricing"].accrued_interest = RInt(0)
              /\ results["calculatePricing"].dirty_price = sec.cleanPrice
              /\ "security_type" \in
                     DOMAIN results["calculatePricing"].calculation_details
        /\ Applied("generateCashflowsAndPrice") =>
              /\ Returned("generateCashflowsAndPrice")
              /\ results["generateCashflowsAndPrice"].dirtyPrice = sec.cleanPrice
              /\ Len(results["generateCashflowsAndPrice"].cashflows) = 1
              /\ results["generateCashflowsAndPrice"].cashflows[1].type
                     = "Principal"

\* the accrued interest of calculatePricing before rounding, from the day
\* counts it reports
UnroundedAccrued ==
    LET p == PricingParams(PriceRow(sec), IssueRow(sec), referenceDate)
        d == results["calculatePricing"].calculation_details
    IN  IF "days_accrued" \in DOMAIN d
        THEN RMul(RMul(RDiv(p.couponRate, RInt(p.frequency)), FaceValue),
                  RDiv(d.days_accrued, d.days_in_period))
        ELSE RInt(0)

\* C8: for the same security, clean price and reference date, the dirty price
\* of generateCashflowsAndPrice equals the clean price plus the unrounded
\* accrued interest of calculatePricing, with firstInterestPaymentDate
\* supplied or absent.
CalibrationMatchesPricing ==
    (Returned("calculatePricing") /\ Returned("generateCashflowsAndPrice")) =>
        results["generateCashflowsAndPrice"].dirtyPrice
            = RAdd(sec.cleanPrice, UnroundedAccrued)

\* the semi-annual 4% note of the reference scenario, settled 2025-11-19
IsReferenceScenario ==
    /\ sec.securityType = "MARKET BASED NOTE"
    /\ sec.interestRate = RInt(4)
    /\ sec.interestPaymentFrequency = "Semi-Annual"
    /\ sec.firstInterestPaymentDate = YMD(2024, 8, 15)
    /\ sec.maturityDate = YMD(2034, 2, 15)
    /\ sec.cleanPrice = Rat(197, 2)
    /\ referenceDate = YMD(2025, 11, 19)

ScenarioPricing(r) ==
    /\ r.ok
    /\ r.calculation_details.last_coupon_date = formatDate(YMD(2025, 8, 15))
    /\ r.calculation_details.next_coupon_date = formatDate(YMD(2026, 2, 15))
    /\ r.calculation_details.days_in_period = RInt(184)
    /\ r.calculation_details.days_accrued = RInt(96)
    /\ r.accrued_interest = roundTo(Rat(2 * 96, 184), 6)
    /\ r.dirty_price = roundTo(RAdd(Rat(197, 2), Rat(2 * 96, 184)), 6)

\* C9: in the reference scenario every calculatePricing variant resolves
\* lastCoupon 2025-08-15, nextCoupon 2026-02-15, 184 days in the period,
\* 96 days accrued, accrued interest 2.0 * 96/184 and dirty price
\* 98.5 + 2.0 * 96/184 (both to the six decimals returned).
ReferenceScenario ==
    IsReferenceScenario =>
        \A fn \in {"calculatePricing", "calculatePricing_chat",
                   "calculatePricing_part009"} :
            Applied(fn) => ScenarioPricing(results[fn])

\* what the claim asks of a day count of (d1, d2): an error when d2 < d1 or
\* a date is invalid, otherwise a non-negative whole number
ValidatedDayCount(d1, d2, threw, days) ==
    IF ~IsValidDate(d1) \/ ~IsValidDate(d2) \/ d2 < d1
    THEN threw
    ELSE ~threw /\ RIsInt(days) /\ RLe(RInt(0), days)

\* C10: daysBetween(d1, d2) fails whenever d2 < d1 or a date is invalid and
\* otherwise returns a non-negative whole number of days: the daysBetween
\* of the date helper, its sibling daysBetween2 and the daysBetween of
\* chat.js alike.
DaysBetweenValidates ==
    /\ Applied("daysBetween") =>
          ValidatedDayCount(results["daysBetween"].d1, results["daysBetween"].d2,
                            ~results["daysBetween"].ok,
                            results["daysBetween"].value)
    /\ \A fn \in {"daysBetween2", "daysBetween_chat"} :
          results[fn] # Pending =>
              ValidatedDayCount(results[fn].d1, results[fn].d2,
                                ~results[fn].call.ok,
                                IF results[fn].call.ok
                                THEN RInt(results[fn].call.days)
                                ELSE NaNNum)

\* ------------------------------------------------------------------------
\* Business-day calendar (src/src/analyzeNNS_alt.js, src/src/chatbot.js)
\* ------------------------------------------------------------------------
\* Date.prototype.getDay: 0 = Sunday .. 6 = Saturday; 1970-01-01 was a Thursday
getDay(date) == (DayOf(date) + 4) % 7

\* lines 396-402: the loop of getNthWeekdayOfMonth from the day `date` on,
\* `count` occurrences of the weekday seen before it
RECURSIVE NthWeekdayLoop(_, _, _, _, _)
NthWeekdayLoop(date, month, weekday, n, count) ==
    IF getMonth(date) # month THEN Null
    ELSE IF getDay(date) = weekday /\ count + 1 = n THEN date
    ELSE The({ NthWeekdayLoop(next, month, weekday, n, seen) :
               <<next, seen>> \in
                   {<<setDate(date, getDate(date) + 1),
                      IF getDay(date) = weekday THEN count + 1 ELSE count>>} })

getNthWeekdayOfMonth(year, month, weekday, n) == The({ NthWeekdayLoop(first, month, weekday, n, 0) : first \in {NewDate(year, month, 1)} })

\* lines 413-415: the loop of getLastWeekdayOfMonth
RECURSIVE LastWeekdayLoop(_, _)
LastWeekdayLoop(date, weekday) ==
    IF getDay(date) = weekday THEN date
    ELSE The({ LastWeekdayLoop(prev, weekday) :
               prev \in {setDate(date, getDate(date) - 1)} })

getLastWeekdayOfMonth(year, month, weekday) == The({ LastWeekdayLoop(last, weekday) : last \in {NewDate(year, month + 1, 0)} })

getGoodFriday(year) ==
    LET a == year % 19
        b == year \div 100
        c == year % 100
        d == b \div 4
        e == b % 4
        f == (b + 8) \div 25
        g == (b - f + 1) \div 3
        h == (19 * a + b - d - g + 15) % 30
        i == c \div 4
        k == c % 4
        l == (32 + 2 * e + 2 * i - h - k) % 7
        m == (a + 11 * h + 22 * l) \div 451
        month == ((h + l - 7 * m + 114) \div 31) - 1
        day == ((h + l - 7 * m + 114) % 31) + 1
    IN  The({ setDate(easter, getDate(easter) - 2) :
              easter \in {NewDate(year, month, day)} })

\* lines 376-384: a holiday on Saturday is observed on the Friday before, a
\* holiday on Sunday on the Monday after
ObservedHoliday(holiday) ==
    IF getDay(holiday) = 6
    THEN NewDate(getFullYear(holiday), getMonth(holiday), getDate(holiday) - 1)
    ELSE IF getDay(holiday) = 0
    THEN NewDate(getFullYear(holiday), getMonth(holiday), getDate(holiday) + 1)
    ELSE holiday

\* the observed holidays of one year; the code holds them in an array that
\* isBusinessDay only searches, so the model holds them as a set
getUSFederalHolidays(year) ==
    { ObservedHoliday(holiday) :
      holiday \in { NewDate(year, 0, 1),
                    getNthWeekdayOfMonth(year, 0, 1, 3),
                    getNthWeekdayOfMonth(year, 1, 1, 3),
                    getGoodFriday(year),
                    getLastWeekdayOfMonth(year, 4, 1),
                    NewDate(year, 6, 4),
                    getNthWeekdayOfMonth(year, 8, 1, 1),
                    getNthWeekdayOfMonth(year, 9, 1, 2),
                    NewDate(year, 10, 11),
                    getNthWeekdayOfMonth(year, 10, 4, 4),
                    NewDate(year, 11, 25) } }

isBusinessDay(date) ==
    IF getDay(date) = 0 \/ getDay(date) = 6 THEN FALSE
    ELSE ~\E holiday \in getUSFederalHolidays(getFullYear(date)) :
             formatDate(holiday) = formatDate(date)

\* the while loops of getNextBusinessDay run at most MaxSkip times in the
\* model; Null stands for a loop that has not ended by then
MaxSkip == 10

RECURSIVE NextBusinessDayLoop(_, _)
NextBusinessDayLoop(next, n) ==
    IF isBusinessDay(next) THEN next
    ELSE IF n = 0 THEN Null
    ELSE The({ NextBusinessDayLoop(after, n - 1) :
               after \in {setDate(next, getDate(next) + 1)} })

getNextBusinessDay(date) == The({ NextBusinessDayLoop(next, MaxSkip) : next \in {setDate(date, getDate(date) + 1)} })

\* the getNextBusinessDay of src/src/chatbot.js: skips weekends only
RECURSIVE NextBusinessDayLoop_chatbot(_, _)
NextBusinessDayLoop_chatbot(next, n) ==
    IF ~(getDay(next) = 0 \/ getDay(next) = 6) THEN next
    ELSE IF n = 0 THEN Null
    ELSE The({ NextBusinessDayLoop_chatbot(after, n - 1) :
               after \in {setDate(next, getDate(next) + 1)} })

getNextBusinessDay_chatbot(date) == The({ NextBusinessDayLoop_chatbot(next, MaxSkip) : next \in {setDate(date, getDate(date) + 1)} })

\* ------------------------------------------------------------------------
\* State machine of the date helper: one date, and one helper applied to it
\* ------------------------------------------------------------------------
\* the months argument is drawn from 0..MaxMonths
MaxMonths == 13

\* month ends, ordinary days, weekends, and holidays with the days around
\* them, at every time of day up to MaxDelta ticks after midnight
CalendarDates ==
    { day + k :
      day \in { YMD(2025, 1, 31), YMD(2024, 1, 31), YMD(2025, 3, 31),
                YMD(2024, 3, 31), YMD(2024, 8, 31), YMD(2024, 12, 15),
                YMD(2025, 11, 19), YMD(2021, 12, 30), YMD(2021, 12, 31),
                YMD(2022, 1, 1), YMD(2025, 12, 24), YMD(2025, 12, 25),
                YMD(2025, 7, 3), YMD(2025, 7, 4), YMD(2021, 7, 2),
                YMD(2021, 7, 4), YMD(2021, 7, 5), YMD(2026, 7, 2),
                YMD(2026, 7, 3), YMD(2025, 4, 17), YMD(2025, 4, 18),
                YMD(2025, 1, 17), YMD(2025, 1, 20), YMD(2025, 11, 26),
                YMD(2025, 11, 27), YMD(2025, 11, 21), YMD(2025, 11, 22),
                YMD(2025, 11, 23), YMD(2025, 5, 23), YMD(2025, 5, 26),
                YMD(2022, 12, 30), YMD(2023, 1, 2) },
      k \in 0..MaxDelta }

CalendarInit ==
    /\ calendar \in [date : CalendarDates, fn : {"none"}]
    /\ sec = <<>>
    /\ referenceDate = Null
    /\ results = <<>>
    /\ optimizer = <<>>
    /\ calibration = <<>>

CalendarStore(fn, fields) ==
    /\ calendar.fn = "none"
    /\ calendar' = [date |-> calendar.date, fn |-> fn] @@ fields
    /\ UNCHANGED <<sec, referenceDate, results, optimizer, calibration>>

AddMonthsSafe ==
    \E months \in 0..MaxMonths, targetDay \in 1..31 :
        CalendarStore("addMonthsSafe",
                      [months |-> months, targetDay |-> targetDay,
                       value |-> addMonthsSafe(calendar.date, months, targetDay)])

SubtractMonthsSafe ==
    \E months \in 0..MaxMonths, targetDay \in 1..31 :
        CalendarStore("subtractMonthsSafe",
                      [months |-> months, targetDay |-> targetDay,
                       value |-> subtractMonthsSafe(calendar.date, months,
                                                    targetDay)])

IsBusinessDay ==
    CalendarStore("isBusinessDay", [answer |-> isBusinessDay(calendar.date)])

GetNextBusinessDay ==
    CalendarStore("getNextBusinessDay",
                  [value |-> getNextBusinessDay(calendar.date)])

GetNextBusinessDayChatbot ==
    CalendarStore("getNextBusinessDay_chatbot",
                  [value |-> getNextBusinessDay_chatbot(calendar.date)])

CalendarNext ==
    \/ AddMonthsSafe
    \/ SubtractMonthsSafe
    \/ IsBusinessDay
    \/ GetNextBusinessDay
    \/ GetNextBusinessDayChatbot

CalendarSpec == CalendarInit /\ [][CalendarNext]_vars

\* ------------------------------------------------------------------------
\* Properties of the date helper
\* ------------------------------------------------------------------------
\* the length of a month by the calendar rule (month 0 = January)
DaysInMonth(year, month) ==
    IF month = 1
    THEN (IF year % 4 = 0 /\ (year % 100 # 0 \/ year % 400 = 0) THEN 29 ELSE 28)
    ELSE IF month \in {3, 5, 8, 10} THEN 30 ELSE 31

\* value is the day Min(targetDay, length of the month) of the month that is
\* `months` months after (before, when negative) the month of date
ClampedInMonth(date, months, targetDay, value) ==
    LET index == 12 * getFullYear(date) + getMonth(date) + months
    IN  /\ IsValidDate(value)
        /\ getFullYear(value) = index \div 12
        /\ getMonth(value) = index % 12
        /\ getDate(value) = Min(targetDay, DaysInMonth(index \div 12, index % 12))
        /\ getDate(value) \in 1..DaysInMonth(getFullYear(value), getMonth(value))

\* C11: addMonthsSafe(d, k, t) is the date in the month k months after the
\* month of d whose day is min(t, length of that month), subtractMonthsSafe
\* (d, k, t) the same in the month k months before; the result is always a
\* valid calendar date.
MonthSafeArithmetic ==
    /\ calendar.fn = "addMonthsSafe" =>
          ClampedInMonth(calendar.date, calendar.months, calendar.targetDay,
                         calendar.value)
    /\ calendar.fn = "subtractMonthsSafe" =>
          ClampedInMonth(calendar.date, 0 - calendar.months,
                         calendar.targetDay, calendar.value)

\* Jan 31 plus one month on day 31 is Feb 28, and Mar 31 of a leap year less
\* one month is Feb 29
MonthSafeArithmeticWitness ==
    \/ /\ calendar.fn = "addMonthsSafe"
       /\ DayOf(calendar.date) = DayOf(YMD(2025, 1, 31))
       /\ calendar.months = 1 /\ calendar.targetDay = 31
       /\ calendar.value = YMD(2025, 2, 28)
    \/ /\ calendar.fn = "subtractMonthsSafe"
       /\ DayOf(calendar.date) = DayOf(YMD(2024, 3, 31))
       /\ calendar.months = 1 /\ calendar.targetDay = 31
       /\ calendar.value = YMD(2024, 2, 29)

\* ------------------------------------------------------------------------
\* Properties of coupon-schedule stepping
\* ------------------------------------------------------------------------
\* date falls on the anchor day, clamped to the length of its month
Anchored(date, anchorDay) ==
    getDate(date) = Min(anchorDay, DaysInMonth(getFullYear(date), getMonth(date)))

\* C12: coupon-schedule stepping never drifts.  For a schedule anchored on
\* the day D of its first coupon, every date that repeated stepping
\* generates before maturity falls on day min(D, length of its month), in
\* the dates of generateCouponDates and in the coupon cashflows of
\* generateCouponCashflows alike.
ScheduleNeverDrifts ==
    /\ (Returned("generateCouponDates") /\ IsValidDate(FirstCouponDate)) =>
          \A i \in DOMAIN CouponDatesResult.allCouponDates :
              (/\ DateLe(FirstCouponDate, CouponDatesResult.allCouponDates[i])
               /\ DateLt(CouponDatesResult.allCouponDates[i], MaturityDate))
                  => Anchored(CouponDatesResult.allCouponDates[i],
                              getDate(FirstCouponDate))
    /\ (/\ Returned("generateCashflowsAndPrice")
        /\ IsValidDate(parseDate(sec.firstInterestPaymentDate))) =>
          \A i \in DOMAIN results["generateCashflowsAndPrice"].cashflows :
              results["generateCashflowsAndPrice"].cashflows[i].type = "Coupon"
                  => Anchored(results["generateCashflowsAndPrice"].cashflows[i].date,
                              getDate(parseDate(sec.firstInterestPaymentDate)))

\* ------------------------------------------------------------------------
\* Properties of the business-day calendar
\* ------------------------------------------------------------------------
\* date is the observed date of a listed holiday of its own year or of the
\* years next to it
IsObservedHoliday(date) ==
    \E year \in (getFullYear(date) - 1)..(getFullYear(date) + 1) :
        \E holiday \in getUSFederalHolidays(year) : DayOf(holiday) = DayOf(date)

IsWeekend(date) == getDay(date) \in {0, 6}

\* C13: isBusinessDay is false for every Saturday and Sunday and for the
\* observed date of every listed holiday, the observed dates that fall in
\* the calendar year before the holiday included (New Year's Day on a
\* Saturday is observed on December 31).
BusinessDayCalendar ==
    (/\ calendar.fn = "isBusinessDay"
     /\ (IsWeekend(calendar.date) \/ IsObservedHoliday(calendar.date)))
        => calendar.answer = FALSE

\* C14: getNextBusinessDay(d) terminates and returns the smallest date
\* strictly after d that is neither a weekend day nor an observed holiday:
\* the result satisfies isBusinessDay and every day between d and the
\* result is a weekend day or an observed holiday.  Both the
\* getNextBusinessDay of the date helper and the one of chatbot.js.
NextBusinessDay ==
    \A fn \in {"getNextBusinessDay", "getNextBusinessDay_chatbot"} :
        calendar.fn = fn =>
            /\ calendar.value # Null
            /\ DateGt(calendar.value, calendar.date)
            /\ ~IsWeekend(calendar.value)
            /\ ~IsObservedHoliday(calendar.value)
            /\ isBusinessDay(calendar.value)
            /\ \A k \in 1..(MaxSkip + 1) :
                   calendar.date + k * TicksPerDay < calendar.value =>
                       \/ IsWeekend(calendar.date + k * TicksPerDay)
                       \/ IsObservedHoliday(calendar.date + k * TicksPerDay)

\* ------------------------------------------------------------------------
\* Simplex optimizer (NSSCurveCalculator.nelderMead of src/src/index.js; the
\* nelderMead of src/unnamed/part_007 has the same loop and returns
\* simplex[0] alone).  Points are sequences of rationals, bounds[i] is
\* <<min, max>>.  Indices are 1-based: simplex[1] is the code's simplex[0],
\* simplex[n + 1] the code's simplex[n].
\* ------------------------------------------------------------------------
RSub(x, y) == RAdd(x, RMul(RInt(-1), y))

\* the objectives handed to the optimizer in the model, on points of any
\* length: the distance to the point (5, 3, 5, 3, ...), the sum of the
\* coordinates, and a function with a ridge of height 1000 over 0 < x[1] < 2
Objective(name, x) ==
    LET RECURSIVE Total(_, _)
        Total(i, acc) ==
            IF i > Len(x) THEN acc
            ELSE The({ Total(i + 1, next) :
                       next \in {RAdd(acc,
                           IF name = "descent" THEN x[i]
                           ELSE The({ IF RLt(x[i], c) THEN RSub(c, x[i])
                                      ELSE RSub(x[i], c) :
                                      c \in {IF name = "ridge" THEN RInt(0)
                                             ELSE IF i % 2 = 1 THEN RInt(5)
                                             ELSE RInt(3)} }))} })
    IN  IF name = "ridge" /\ RLt(RInt(0), x[1]) /\ RLt(x[1], RInt(2))
        THEN RInt(1000)
        ELSE Total(1, RInt(0))

\* clipToBounds without the clip
clipToBounds_unclipped(x, bounds) == x

\* Math.max(bounds[i][0], Math.min(bounds[i][1], val))
clipToBounds(x, bounds) ==
    [i \in DOMAIN x |->
        The({ IF RLt(bounds[i][1], capped) THEN capped ELSE bounds[i][1] :
              capped \in {IF RLt(x[i], bounds[i][2]) THEN x[i] ELSE bounds[i][2]} })]

\* lines 381-386: the clipped initial point, then the initial point moved in
\* one dimension by 5% of the range of its bounds, clipped
InitialSimplex(initial, bounds) ==
    [v \in 1..(Len(initial) + 1) |->
        IF v = 1 THEN clipToBounds(initial, bounds)
        ELSE clipToBounds(
                 [initial EXCEPT ![v - 1] =
                     RAdd(@, RMul(RSub(bounds[v - 1][2], bounds[v - 1][1]),
                                  Rat(1, 20)))],
                 bounds)]

\* line 396: the indices sorted by value, equal values in index order
SortedIndices(values) ==
    CHOOSE indices \in [DOMAIN values -> DOMAIN values] :
        \A i, j \in DOMAIN values :
            i < j => \/ RLt(values[indices[i]], values[indices[j]])
                     \/ /\ values[indices[i]] = values[indices[j]]
                        /\ indices[i] < indices[j]

\* lines 407-412: centroid[j] += simplex[i][j] / n over the best n vertices
Centroid(simplex, n) ==
    LET RECURSIVE Sum(_, _, _)
        Sum(j, i, acc) ==
            IF i > n THEN acc
            ELSE The({ Sum(j, i + 1, next) :
                       next \in {RAdd(acc, RDiv(simplex[i][j], RInt(n)))} })
    IN  [j \in 1..n |-> Sum(j, 1, RInt(0))]

\* the convergence test, never true
Converged_never(values, tol) == FALSE

\* lines 401-402: range < tol on the sorted values
Converged(values, tol) == RLt(RSub(values[Len(values)], values[1]), tol)

\* the worst vertex replaced, its cached value left as it was
ReplaceWorst_staleValue(o, simplex, values, point, value) ==
    [o EXCEPT !.simplex = [simplex EXCEPT ![Len(simplex)] = point],
              !.values = values]

\* a vertex and its value put in the place of the worst one
ReplaceWorst(o, simplex, values, point, value) ==
    [o EXCEPT !.simplex = [simplex EXCEPT ![Len(simplex)] = point],
              !.values = [values EXCEPT ![Len(values)] = value]]

\* the reflected point accepted whatever its value
Transform_reflectAlways(o, simplex, values, n) ==
    The({ [ReplaceWorst(o, simplex, values, reflected,
                        Objective(o.objective, reflected))
              EXCEPT !.evaluated = @ \cup {<<reflected,
                                             Objective(o.objective, reflected)>>},
                     !.branch = "reflect"] :
          reflected \in
            { clipToBounds(
                  [j \in 1..n |->
                      RAdd(c[j], RMul(RInt(1), RSub(c[j], simplex[n + 1][j])))],
                  o.bounds) :
              c \in {Centroid(simplex, n)} } })

\* lines 414-457: reflection, expansion, contraction or shrink of the sorted
\* simplex; every candidate is clipped and then evaluated
Transform(o, simplex, values, n) ==
    The({ The({
        IF RLt(reflectedVal, values[n]) /\ RLe(values[1], reflectedVal)
        THEN [ReplaceWorst(o, simplex, values, reflected, reflectedVal)
                 EXCEPT !.evaluated = @ \cup {<<reflected, reflectedVal>>},
                        !.branch = "reflect"]
        ELSE IF RLt(reflectedVal, values[1])
        THEN The({ The({
                 [(IF RLt(expandedVal, reflectedVal)
                   THEN ReplaceWorst(o, simplex, values, expanded, expandedVal)
                   ELSE ReplaceWorst(o, simplex, values, reflected, reflectedVal))
                     EXCEPT !.evaluated = @ \cup {<<reflected, reflectedVal>>,
                                                  <<expanded, expandedVal>>},
                            !.branch = "expand"] :
                 expandedVal \in {Objective(o.objective, expanded)} }) :
                 expanded \in {clipToBounds(
                     [j \in 1..n |->
                         RAdd(centroid[j],
                              RMul(RInt(2), RSub(reflected[j], centroid[j])))],
                     o.bounds)} })
        ELSE The({ The({
                 IF RLt(contractedVal, values[n + 1])
                 THEN [ReplaceWorst(o, simplex, values, contracted, contractedVal)
                          EXCEPT !.evaluated = @ \cup {<<reflected, reflectedVal>>,
                                                       <<contracted, contractedVal>>},
                                 !.branch = "contract"]
                 ELSE The({
                     [o EXCEPT !.simplex = shrunk,
                               !.values = [i \in 1..(n + 1) |->
                                              IF i = 1 THEN values[1]
                                              ELSE Objective(o.objective, shrunk[i])],
                               !.evaluated = @ \cup {<<reflected, reflectedVal>>,
                                                     <<contracted, contractedVal>>}
                                               \cup { <<shrunk[i], Objective(o.objective, shrunk[i])>> :
                                                      i \in 2..(n + 1) },
                               !.branch = "shrink"] :
                     shrunk \in {[i \in 1..(n + 1) |->
                         IF i = 1 THEN simplex[1]
                         ELSE clipToBounds(
                                  [j \in 1..n |->
                                      RAdd(simplex[1][j],
                                           RMul(Rat(1, 2),
                                                RSub(simplex[i][j], simplex[1][j])))],
                                  o.bounds)]} }) :
                 contractedVal \in {Objective(o.objective, contracted)} }) :
                 contracted \in {clipToBounds(
                     [j \in 1..n |->
                         RAdd(centroid[j],
                              RMul(Rat(1, 2), RSub(simplex[n + 1][j], centroid[j])))],
                     o.bounds)} }) :
        reflectedVal \in {Objective(o.objective, reflected)} }) :
        <<reflected, centroid>> \in
            { <<clipToBounds(
                    [j \in 1..n |->
                        RAdd(c[j], RMul(RInt(1), RSub(c[j], simplex[n + 1][j])))],
                    o.bounds), c>> :
              c \in {Centroid(simplex, n)} } })

\* lines 392-458: one turn of the for loop on the state o of the call: sort,
\* test for convergence, transform; the loop ends at the break or when
\* iter reaches maxIter
Iteration(o) ==
    The({ The({
        IF Converged(values, o.tol)
        THEN [o EXCEPT !.simplex = simplex, !.values = values,
                       !.iterations = o.iter + 1,
                       !.ranges = Append(@, RSub(values[Len(values)], values[1])),
                       !.branch = "break", !.pc = "return"]
        ELSE [Transform(o, simplex, values, Len(values) - 1)
                 EXCEPT !.iterations = o.iter + 1,
                        !.iter = o.iter + 1,
                        !.ranges = Append(@, RSub(values[Len(values)], values[1])),
                        !.pc = IF o.iter + 1 < o.maxIter THEN "loop" ELSE "return"] :
        <<simplex, values>> \in
            {<<[i \in DOMAIN indices |-> o.simplex[indices[i]]],
               [i \in DOMAIN indices |-> o.values[indices[i]]]>>} }) :
        indices \in {SortedIndices(o.values)} })

\* ------------------------------------------------------------------------
\* State machine of one nelderMead call
\* ------------------------------------------------------------------------
\* options.maxIter is drawn from 1..MaxIter
MaxIter == 5

\* lines 365-390: the arguments, the initial simplex and its values
OptimizerInit ==
    /\ \E objective \in {"distance", "descent", "ridge"},
          initial \in { <<RInt(0), RInt(0)>>, <<RInt(4), RInt(4)>>,
                        <<RInt(2), RInt(10)>>, <<RInt(-3), RInt(1)>>,
                        <<RInt(30), RInt(0)>>, <<RInt(1)>> },
          bound \in { <<RInt(0), RInt(20)>>, <<RInt(-20), RInt(20)>>,
                      <<RInt(4), RInt(4)>> },
          maxIter \in 1..MaxIter,
          tol \in { Rat(1, 2), RInt(3) } :
            optimizer =
                The({ [objective |-> objective, initial |-> initial,
                       bounds |-> [i \in DOMAIN initial |-> bound],
                       maxIter |-> maxIter, tol |-> tol,
                       simplex |-> simplex,
                       values |-> [v \in DOMAIN simplex |->
                                      Objective(objective, simplex[v])],
                       evaluated |-> { <<simplex[v], Objective(objective, simplex[v])>> :
                                       v \in DOMAIN simplex },
                       iter |-> 0, iterations |-> 0, ranges |-> <<>>,
                       branch |-> "start", pc |-> "loop",
                       x |-> <<>>, fx |-> NaNNum,
                       report |-> [by |-> "", squaredError |-> NaNNum,
                                   iterations |-> -1]] :
                      simplex \in {InitialSimplex(initial,
                                       [i \in DOMAIN initial |-> bound])} })
    /\ sec = <<>>
    /\ referenceDate = Null
    /\ results = <<>>
    /\ calendar = <<>>
    /\ calibration = <<>>

Iterate ==
    /\ optimizer.pc = "loop"
    /\ optimizer' = Iteration(optimizer)
    /\ UNCHANGED <<sec, referenceDate, results, calendar, calibration>>

\* lines 460-464
Return ==
    /\ optimizer.pc = "return"
    /\ optimizer' = [optimizer EXCEPT !.x = optimizer.simplex[1],
                                      !.fx = optimizer.values[1],
                                      !.pc = "done"]
    /\ UNCHANGED <<sec, referenceDate, results, calendar, calibration>>

\* getNSSParameters of src/src/index.js:615-646 with NSSCurveCalculator.fit
\* (479-530): the fit result carries result.fx and result.iterations of the
\* nelderMead call
GetNSSParametersIndex ==
    /\ optimizer.pc = "done"
    /\ optimizer' = [optimizer EXCEPT
                        !.report = [by |-> "index.js",
                                    squaredError |-> optimizer.fx,
                                    iterations |-> optimizer.iterations],
                        !.pc = "reported"]
    /\ UNCHANGED <<sec, referenceDate, results, calendar, calibration>>

\* getNSSParameters of src/src/analyzeNNS_alt.js:129-148: its nelderMead
\* (src/unnamed/part_007, the same loop) returns the vertex simplex[0] alone,
\* and the fit result is built with squaredError: 99 and iterations: 99
GetNSSParametersAlt ==
    /\ optimizer.pc = "done"
    /\ optimizer' = [optimizer EXCEPT
                        !.report = [by |-> "analyzeNNS_alt.js",
                                    squaredError |-> RInt(99),
                                    iterations |-> 99],
                        !.pc = "reported"]
    /\ UNCHANGED <<sec, referenceDate, results, calendar, calibration>>

OptimizerNext ==
    \/ Iterate
    \/ Return
    \/ GetNSSParametersIndex
    \/ GetNSSParametersAlt

OptimizerSpec == OptimizerInit /\ [][OptimizerNext]_vars

\* the call runs to completion within one invocation
OptimizerFairSpec == OptimizerSpec /\ WF_vars(OptimizerNext)

\* ------------------------------------------------------------------------
\* Properties of the optimizer
\* ------------------------------------------------------------------------
InBox(x, bounds) ==
    \A i \in DOMAIN x : RLe(bounds[i][1], x[i]) /\ RLe(x[i], bounds[i][2])

\* C15: with bounds min <= max, every point at which nelderMead evaluates
\* the objective and every vertex of the simplex (initial, reflected,
\* expanded, contracted, shrunk) lies inside the box, at every iteration,
\* and so does the returned point.
SimplexInBounds ==
    /\ \A v \in DOMAIN optimizer.simplex :
           InBox(optimizer.simplex[v], optimizer.bounds)
    /\ \A e \in optimizer.evaluated : InBox(e[1], optimizer.bounds)
    /\ optimizer.pc = "done" => InBox(optimizer.x, optimizer.bounds)

\* a call that starts outside the box, expands and returns a point on a
\* face of the box
SimplexInBoundsWitness ==
    /\ optimizer.pc = "done"
    /\ ~InBox(optimizer.initial, optimizer.bounds)
    /\ optimizer.iterations >= 2
    /\ optimizer.branch = "expand"
    /\ \E i \in DOMAIN optimizer.x : optimizer.x[i] = optimizer.bounds[i][2]

\* C16: nelderMead returns the point with the lowest objective value among
\* all points it evaluated, and the reported fx is the value of that point,
\* on the convergence exit and on the maxIter exit.
ReturnsBestEvaluated ==
    optimizer.pc = "done" =>
        /\ <<optimizer.x, optimizer.fx>> \in optimizer.evaluated
        /\ \A e \in optimizer.evaluated : RLe(optimizer.fx, e[2])

\* the turns of the loop so far: at most maxIter, none after a turn whose
\* sorted simplex had worst - best < tol, and a call that left the loop
\* before maxIter turns left it on such a simplex
BoundedIterations ==
    /\ optimizer.iterations <= optimizer.maxIter
    /\ Len(optimizer.ranges) = optimizer.iterations
    /\ \A k \in 1..(Len(optimizer.ranges) - 1) :
           ~RLt(optimizer.ranges[k], optimizer.tol)
    /\ (optimizer.pc = "loop" /\ optimizer.iterations > 0) =>
           ~RLt(optimizer.ranges[optimizer.iterations], optimizer.tol)
    /\ (optimizer.pc # "loop" /\ optimizer.iterations < optimizer.maxIter) =>
           RLt(RSub(optimizer.values[Len(optimizer.values)],
                    optimizer.values[1]), optimizer.tol)

\* C17: nelderMead always terminates: it runs at most maxIter iterations,
\* stops at the first iteration whose sorted simplex has worst - best < tol,
\* reports iterations <= maxIter, and when it stops before maxIter
\* iterations the final simplex has worst - best < tol.
NelderMeadTerminates == []BoundedIterations /\ <>(optimizer.pc = "done")

\* a call that converges after reflecting, before maxIter turns
NelderMeadTerminatesWitness ==
    /\ optimizer.pc = "done"
    /\ optimizer.iterations >= 3
    /\ optimizer.iterations < optimizer.maxIter
    /\ optimizer.branch = "break"

\* ------------------------------------------------------------------------
\* Calibration objectives and entry points (src/src/nssCalculator.js,
\* src/src/analyzeNNS.js, src/src/analyzeNNS_updated.js, src/src/index.js,
\* src/unnamed/part_001)
\*
\* The objectives are applied to the parameter vectors (theta0, 0, 0, 0,
\* lambda1, lambda2): with theta1 = theta2 = theta3 = 0 the curve is the
\* constant theta0 at every positive maturity, whatever the lambdas, so the
\* sum of squared errors is an exact rational; the price-space objective
\* discounts with exp(-r * t) and is applied with theta0 = 0, where every
\* discount factor is 1.  `curve` counts the evaluations of the curve.
\*
\* An entry point is applied to a target maturity t and to a database whose
\* query returns `rows` rows of which `valid` survive the filter of the
\* fetch; `points` is the number of observations handed to nelderMead, -1
\* when the optimizer is not invoked.
\* ------------------------------------------------------------------------
\* return 1e9
Penalty == 1000000000

\* the database query returns up to MaxRows rows
MaxRows == 7

\* runningError += Math.pow(market - model, 2) over the observations
SquaredErrors(market, model) ==
    LET RECURSIVE Sum(_, _)
        Sum(i, acc) ==
            IF i > Len(market) THEN acc
            ELSE The({ Sum(i + 1, next) :
                       next \in {RAdd(acc, RMul(RSub(market[i], model[i]),
                                                RSub(market[i], model[i])))} })
    IN  Sum(1, RInt(0))

\* src/src/analyzeNNS.js:50-62: modelPrice += cf.amount * Math.exp(-r * t)
\* at the spot rate r = 0
ModelPrice(cashflows) ==
    LET RECURSIVE Sum(_, _)
        Sum(i, acc) ==
            IF i > Len(cashflows) THEN acc
            ELSE The({ Sum(i + 1, next) :
                       next \in {RAdd(acc, RMul(cashflows[i], RInt(1)))} })
    IN  Sum(1, RInt(0))

\* the market data, the parameters theta0, lambda1, lambda2 an objective is
\* evaluated at, and the target maturity t of a request
CalibrationInit ==
    /\ \E theta0 \in {RInt(0), Rat(1, 25)},
          lambda1 \in { RInt(-1), RInt(0), Rat(1, 20), Rat(3, 50), Rat(1, 10),
                        Rat(3, 2) },
          lambda2 \in { RInt(0), Rat(1, 20), Rat(1, 10), RInt(3) },
          t \in { RInt(-1), RInt(0), Rat(1, 2000), Rat(1, 1000), RInt(1),
                  Rat(15, 2), RInt(30), RInt(31) } :
            calibration =
                [fn |-> "none", t |-> t, rows |-> 0, valid |-> 0,
                 theta0 |-> theta0, lambda1 |-> lambda1, lambda2 |-> lambda2,
                 yields |-> << Rat(1, 25), Rat(1, 20), Rat(3, 50) >>,
                 bonds |-> << [price |-> RInt(99),
                               cashflows |-> <<RInt(2), RInt(102)>>],
                              [price |-> RInt(100),
                               cashflows |-> <<RInt(100)>>] >>,
                 value |-> NaNNum, curve |-> 0, outcome |-> "", points |-> -1,
                 numPoints |-> 0, maxMaturity |-> RInt(0), emitted |-> <<>>]
    /\ sec = <<>>
    /\ referenceDate = Null
    /\ results = <<>>
    /\ calendar = <<>>
    /\ optimizer = <<>>

CalibrationStore(fn, fields) ==
    /\ calibration.fn = "none"
    /\ calibration' = [fn |-> fn] @@ fields @@ calibration
    /\ UNCHANGED <<sec, referenceDate, results, calendar, optimizer>>

\* calculateNSSErrors of src/src/nssCalculator.js:141-167 (yield space)
CalculateNSSErrors ==
    CalibrationStore("calculateNSSErrors",
        IF \/ RLe(calibration.lambda1, Rat(1, 20))
           \/ RLe(calibration.lambda2, Rat(1, 20))
        THEN [value |-> RInt(Penalty), curve |-> 0]
        ELSE [value |-> SquaredErrors(calibration.yields,
                            [i \in DOMAIN calibration.yields |->
                                calibration.theta0]),
              curve |-> Len(calibration.yields)])

\* calculateNSSErrors of src/src/analyzeNNS.js:38-71 (price space), at
\* theta0 = 0
CalculateNSSErrorsPrice ==
    /\ calibration.theta0 = RInt(0)
    /\ CalibrationStore("calculateNSSErrors_price",
        IF \/ RLe(calibration.lambda1, Rat(1, 10))
           \/ RLe(calibration.lambda2, Rat(1, 10))
        THEN [value |-> RInt(Penalty), curve |-> 0]
        ELSE [value |-> SquaredErrors(
                            [b \in DOMAIN calibration.bonds |->
                                calibration.bonds[b].price],
                            [b \in DOMAIN calibration.bonds |->
                                ModelPrice(calibration.bonds[b].cashflows)]),
              curve |-> 3])

\* NSSCurveCalculator.objective of src/src/index.js:351-362 (yield space)
ObjectiveOfCalculator ==
    CalibrationStore("objective",
        [value |-> SquaredErrors(calibration.yields,
                       [i \in DOMAIN calibration.yields |-> calibration.theta0]),
         curve |-> Len(calibration.yields)])

\* calculateSpotRate of src/src/nssCalculator.js:176-252: validates t,
\* fetches, counts the filtered market data, fits, evaluates the curve; an
\* error thrown on the way is caught and returned
CalculateSpotRate ==
    \E rows \in 0..MaxRows : \E valid \in 0..rows :
        CalibrationStore("calculateSpotRate",
            [rows |-> rows, valid |-> valid] @@
            (IF RLe(calibration.t, RInt(0)) \/ RLt(RInt(30), calibration.t)
             THEN [outcome |-> "InvalidInput"]
             ELSE IF rows = 0 THEN [outcome |-> "NoData"]
             ELSE IF valid < 6 THEN [outcome |-> "InsufficientData"]
             ELSE [outcome |-> "rate", points |-> valid, curve |-> 1]))

\* getNSSParameters of src/src/analyzeNNS.js:259-292: fetches and fits
GetNSSParameters ==
    \E rows \in 0..MaxRows : \E valid \in 0..rows :
        CalibrationStore("getNSSParameters",
            [rows |-> rows, valid |-> valid] @@
            (IF rows = 0 THEN [outcome |-> "NoData"]
             ELSE [outcome |-> "parameters", points |-> valid]))

\* getSpotRate of src/src/analyzeNNS.js:301-321: validates t and evaluates
\* the curve at the parameters it is given
GetSpotRate ==
    CalibrationStore("getSpotRate",
        IF RLt(calibration.t, RInt(0)) \/ RLt(RInt(30), calibration.t)
        THEN [outcome |-> "InvalidInput"]
        ELSE [outcome |-> "rate", curve |-> 1])

\* calculateSpotRate of src/src/analyzeNNS_updated.js:113-147 with its
\* getNSSParameters (74-104)
CalculateSpotRateUpdated ==
    \E rows \in 0..MaxRows : \E valid \in 0..rows :
        CalibrationStore("calculateSpotRate_updated",
            [rows |-> rows, valid |-> valid] @@
            (IF RLt(calibration.t, Rat(1, 1000)) \/ RLt(RInt(30), calibration.t)
             THEN [outcome |-> "InvalidInput"]
             ELSE IF valid < 6 THEN [outcome |-> "InsufficientData"]
             ELSE [outcome |-> "rate", points |-> valid, curve |-> 1]))

\* calculateSpotRate of src/unnamed/part_001:88-174 with its getMarketData
\* (8-48), which counts the rows before it filters them, and
\* generateInitialGuesses (55-58)
CalculateSpotRatePart001 ==
    \E rows \in 0..MaxRows : \E valid \in 0..rows :
        CalibrationStore("calculateSpotRate_part001",
            [rows |-> rows, valid |-> valid] @@
            (IF rows < 6 THEN [outcome |-> "InsufficientData"]
             ELSE IF valid = 0 THEN [outcome |-> "EmptyMarketData"]
             ELSE [outcome |-> "rate", points |-> valid,
                   curve |-> IF RLe(calibration.t, Rat(1, 1000)) THEN 0 ELSE 1]))

\* ------------------------------------------------------------------------
\* The yield solver (src/src/indexChat.js:405-599)
\*
\* The objective of yieldFromPrice is bondPriceFromYield(ytm) - price, a sum
\* of cashflows discounted with Math.pow, which has no exact rational value.
\* The solver is applied instead to a family of objectives with exact values,
\* named by the yield at which they vanish: decreasing linear functions
\* 100 * (r - ytm) with the root r inside the first bracket, on its lower
\* end, inside the widened bracket only, and outside both; "convex", a
\* decreasing function with slope -100 up to 0.14 and -10 beyond it and the
\* root 0.10, from whose flat side a Newton step overshoots the root;
\* "increasing"; the constants 1 and 0; and "NaN", the objective of a price
\* that is not a number.  A yield that is not a number gives NaN.
\* ------------------------------------------------------------------------
Func(objective, ytm) ==
    LET Linear(r) == RMul(RInt(100), RSub(r, ytm))
    IN  IF objective = "NaN" \/ ~IsFinite(ytm) THEN NaNNum
        ELSE IF objective = "flat" THEN RInt(1)
        ELSE IF objective = "zero" THEN RInt(0)
        ELSE IF objective = "increasing" THEN RMul(RInt(-1), Linear(Rat(1, 10)))
        ELSE IF objective = "convex"
        THEN IF RLe(ytm, Rat(7, 50)) THEN Linear(Rat(1, 10))
             ELSE RAdd(RInt(-4), RMul(RInt(10), RSub(Rat(7, 50), ytm)))
        ELSE IF objective = "-10%" THEN Linear(Rat(-1, 10))
        ELSE IF objective = "-2%" THEN Linear(Rat(-1, 50))
        ELSE IF objective = "10%" THEN Linear(Rat(1, 10))
        ELSE IF objective = "14%" THEN Linear(Rat(7, 50))
        ELSE IF objective = "40%" THEN Linear(Rat(2, 5))
        ELSE Linear(Rat(3, 5))

\* the bisection that returns the midpoint of its arguments untested
bisectionMethod_neverFails(func, a0, b0, tolerance, maxIterations) ==
    [ok |-> TRUE, error |-> "", value |-> RDiv(RAdd(a0, b0), RInt(2)),
     newton |-> 0, halvings |-> 0, lo |-> a0, hi |-> b0, mids |-> <<>>]

\* bisectionMethod of src/src/indexChat.js:480-514.  The result records the
\* bracket the search started from (lo, hi), the midpoints at which func was
\* evaluated (mids) and the number of halvings.  Math.abs(x) < tolerance is
\* computed by a division when the tolerance is 1/k, which keeps the
\* products within the integers of the model.
bisectionMethod(func, a0, b0, tolerance, maxIterations) ==
    LET AbsLt(x, tol) ==
            /\ IsFinite(x)
            /\ IF tol[1] = 1
               THEN x[1] = 0 \/ tol[2] <= (x[2] - 1) \div Abs(x[1])
               ELSE Abs(x[1]) * tol[2] < tol[1] * x[2]
        \* one turn of the loop; a turn after the return is no turn
        Turn(s) ==
            IF s.done THEN s
            ELSE The({
                IF AbsLt(fc, tolerance) \/ AbsLt(RSub(s.b, s.a), tolerance)
                THEN [s EXCEPT !.done = TRUE, !.value = c,
                               !.mids = Append(@, c)]
                ELSE IF RLt(RMul(s.fa, fc), RInt(0))
                THEN [s EXCEPT !.b = c, !.halvings = @ + 1,
                               !.mids = Append(@, c)]
                ELSE [s EXCEPT !.a = c, !.fa = fc, !.halvings = @ + 1,
                               !.mids = Append(@, c)] :
                <<c, fc>> \in { <<m, Func(func, m)>> :
                                m \in {RDiv(RAdd(s.a, s.b), RInt(2))} } })
        \* n turns, computed by halves
        RECURSIVE Turns(_, _)
        Turns(s, n) ==
            IF n = 0 THEN s
            ELSE IF n = 1 THEN Turn(s)
            ELSE The({ Turns(half, n - n \div 2) :
                       half \in {Turns(s, n \div 2)} })
        Loop(a, b) ==
            The({ [ok |-> TRUE, error |-> "",
                   value |-> IF s.done THEN s.value
                             ELSE RDiv(RAdd(s.a, s.b), RInt(2)),
                   newton |-> 0, halvings |-> s.halvings,
                   lo |-> a, hi |-> b, mids |-> s.mids] :
                  s \in {Turns([a |-> a, b |-> b, fa |-> Func(func, a),
                                done |-> FALSE, value |-> NaNNum,
                                halvings |-> 0, mids |-> <<>>],
                               maxIterations)} })
    IN  IF ~RLt(RInt(0), RMul(Func(func, a0), Func(func, b0)))
        THEN Loop(a0, b0)
        ELSE IF ~RLt(RInt(0), RMul(Func(func, Rat(-1, 20)),
                                   Func(func, Rat(1, 2))))
        THEN Loop(Rat(-1, 20), Rat(1, 2))
        ELSE [ok |-> FALSE, error |-> "NoRootInInterval", value |-> NaNNum,
              newton |-> 0, halvings |-> 0,
              lo |-> Rat(-1, 20), hi |-> Rat(1, 2), mids |-> <<>>]

\* the initial guess returned as the yield, unbounded
yieldFromPrice_firstGuess(objective, price, settlementDate, maturityDate, couponRate) ==
    [ok |-> TRUE, error |-> "",
     value |-> RAdd(couponRate,
                    RDiv(RSub(FaceValue, price),
                         RMul(price, RDiv(RInt((maturityDate - settlementDate)
                                               \div TicksPerDay),
                                          Rat(1461, 4))))),
     newton |-> 0, halvings |-> 0, lo |-> Rat(-1, 50), hi |-> Rat(3, 10),
     mids |-> <<>>]

\* yieldFromPrice of src/src/indexChat.js:405-475 for the clean price, with
\* daysBetween (260-264), which floors the days.  `objective` names the
\* function the nested objective(ytm) computes from the arguments.  The
\* central difference of derivative (417-420), with h = 1e-6, is the slope
\* of the objective when ytm is not within h of the bend of "convex", and
\* otherwise ((-100 + 10) * h + (100 - 10) * (ytm - 0.14)) / (2 * h).
\* `newton` is the number of turns of the Newton loop.
yieldFromPrice(objective, price, settlementDate, maturityDate, couponRate) ==
    LET tolerance == Rat(1, 100000000)
        h == Rat(1, 1000000)
        AbsLt(x, tol) ==
            /\ IsFinite(x)
            /\ (x[1] = 0 \/ tol[2] <= (x[2] - 1) \div Abs(x[1]))
        derivative(ytm) ==
            IF objective = "NaN" \/ ~IsFinite(ytm) THEN NaNNum
            ELSE IF objective \in {"flat", "zero"} THEN RInt(0)
            ELSE IF objective = "increasing" THEN RInt(100)
            ELSE IF objective # "convex" THEN RInt(-100)
            ELSE IF RLe(h, RSub(Rat(7, 50), ytm)) THEN RInt(-100)
            ELSE IF RLe(h, RSub(ytm, Rat(7, 50))) THEN RInt(-10)
            ELSE RAdd(RInt(-55),
                      RMul(RInt(45), RDiv(RSub(ytm, Rat(7, 50)), h)))
        Bisection(i) ==
            [bisectionMethod(objective, Rat(-1, 50), Rat(3, 10), tolerance, 100)
                EXCEPT !.newton = i]
        ReturnYield(i, ytm) ==
            [ok |-> TRUE, error |-> "", value |-> ytm, newton |-> i,
             halvings |-> 0, lo |-> Rat(-1, 50), hi |-> Rat(3, 10),
             mids |-> <<>>]
        \* one turn of the Newton loop; a turn after the loop is left is no
        \* turn
        Turn(s) ==
            IF s.next # "loop" THEN s
            ELSE The({ The({ The({
                     IF AbsLt(f, tolerance)
                     THEN [s EXCEPT !.next = "return", !.turns = @ + 1]
                     ELSE IF AbsLt(RMul(df, RInt(100000)), Rat(1, 100000))
                     THEN [s EXCEPT !.next = "bisection", !.turns = @ + 1]
                     ELSE IF RLt(ytmNew, Rat(-1, 20)) \/ RLt(Rat(1, 2), ytmNew)
                     THEN [s EXCEPT !.next = "bisection", !.turns = @ + 1]
                     ELSE IF AbsLt(RSub(ytmNew, s.ytm), tolerance)
                     THEN [s EXCEPT !.next = "return", !.turns = @ + 1,
                                    !.ytm = ytmNew]
                     ELSE [s EXCEPT !.turns = @ + 1, !.ytm = ytmNew] :
                     ytmNew \in {RSub(s.ytm, RDiv(f, df))} }) :
                     df \in {derivative(s.ytm)} }) :
                     f \in {Func(objective, s.ytm)} })
        \* n turns, computed by halves
        RECURSIVE Turns(_, _)
        Turns(s, n) ==
            IF n = 1 THEN Turn(s)
            ELSE The({ Turns(half, n - n \div 2) :
                       half \in {Turns(s, n \div 2)} })
        Newton(ytm0) ==
            The({ IF s.next = "return" THEN ReturnYield(s.turns, s.ytm)
                  ELSE Bisection(s.turns) :
                  s \in {Turns([ytm |-> ytm0, next |-> "loop", turns |-> 0],
                               100)} })
        yearsToMaturity ==
            RDiv(RInt((maturityDate - settlementDate) \div TicksPerDay),
                 Rat(1461, 4))
        guess ==
            IF RLt(RInt(0), price)
            THEN RAdd(couponRate, RDiv(RSub(FaceValue, price),
                                       RMul(price, yearsToMaturity)))
            ELSE Rat(1, 20)
        initialGuess ==
            IF ~IsFinite(guess) THEN NaNNum
            ELSE IF RLt(Rat(3, 10), guess) THEN Rat(3, 10)
            ELSE IF RLt(guess, Rat(-1, 50)) THEN Rat(-1, 50)
            ELSE guess
    IN  IF RLe(yearsToMaturity, RInt(0))
        THEN [ok |-> FALSE, error |-> "MaturityNotAfterSettlement",
              value |-> NaNNum, newton |-> 0, halvings |-> 0,
              lo |-> Rat(-1, 50), hi |-> Rat(3, 10), mids |-> <<>>]
        ELSE Newton(initialGuess)

\* before the yield solver is called: no call, no market data
SolverInit ==
    /\ calibration =
           [fn |-> "none", outcome |-> "", emitted |-> <<>>,
            solve |-> [func |-> "", a |-> NaNNum, b |-> NaNNum,
                       tolerance |-> NaNNum, maxIterations |-> 0,
                       price |-> NaNNum, ticks |-> 0,
                       call |-> [ok |-> FALSE, error |-> "", value |-> NaNNum,
                                 newton |-> 0, halvings |-> 0, lo |-> NaNNum,
                                 hi |-> NaNNum, mids |-> <<>>]]]
    /\ sec = <<>>
    /\ referenceDate = Null
    /\ results = <<>>
    /\ calendar = <<>>
    /\ optimizer = <<>>

\* a direct call of bisectionMethod, on two brackets, with coarse tolerances
\* and with iteration limits that are and are not reached
BisectionMethod ==
    \E func \in {"-10%", "-2%", "10%", "14%", "40%", "60%", "convex",
                  "increasing", "flat", "zero", "NaN"},
       bracket \in {<<Rat(-1, 50), Rat(3, 10)>>, <<Rat(1, 5), Rat(3, 10)>>},
       tolerance \in {Rat(1, 20), Rat(3, 100)},
       maxIterations \in {1, 2, 100} :
        CalibrationStore("bisectionMethod",
            [solve |-> [func |-> func, a |-> bracket[1], b |-> bracket[2],
                        tolerance |-> tolerance,
                        maxIterations |-> maxIterations,
                        price |-> NaNNum, ticks |-> 0,
                        call |-> bisectionMethod(func, bracket[1], bracket[2],
                                                 tolerance, maxIterations)]])

\* yieldFromPrice on a 4% security priced at 98.5, at 20 or at NaN, whose
\* maturity is `ticks` ticks after the settlement date
YieldFromPrice ==
    \E func \in {"-10%", "-2%", "10%", "14%", "40%", "60%", "convex",
                  "increasing", "flat", "zero", "NaN"},
       price \in {Rat(197, 2), RInt(20), NaNNum},
       ticks \in {-1, 0, 1, TicksPerDay, 1461 * TicksPerDay} :
        CalibrationStore("yieldFromPrice",
            [solve |-> [func |-> func, a |-> Rat(-1, 50), b |-> Rat(3, 10),
                        tolerance |-> Rat(1, 100000000),
                        maxIterations |-> 100,
                        price |-> price, ticks |-> ticks,
                        call |-> yieldFromPrice(func, price, 0, ticks,
                                                Rat(1, 25))]])

\* fetchMarketDataWithYields of src/src/indexChat.js:556-599 with
\* calculateYieldForSecurity (524-550), on a query that returns one row:
\* a row at most 0.001 years from maturity is skipped; an error of the
\* solver is caught, logged with console.warn, and the row is skipped; a
\* yield that is NaN is skipped
FetchMarketDataWithYields ==
    \E func \in {"-10%", "-2%", "10%", "14%", "40%", "60%", "convex",
                  "increasing", "flat", "zero", "NaN"},
       price \in {Rat(197, 2), RInt(20), NaNNum},
       ticks \in {-1, 0, 1, TicksPerDay, 1461 * TicksPerDay} :
        LET term == RDiv(Rat(ticks, TicksPerDay), Rat(1461, 4))
            call == yieldFromPrice(func, price, 0, ticks,
                                   RDiv(RInt(4), RInt(100)))
            \* ytm * 100.0, the common factor of 100 and the denominator
            \* divided out before the multiplication
            yieldVal ==
                IF ~IsFinite(call.value) THEN call.value
                ELSE The({ Rat(call.value[1] * (100 \div g),
                               call.value[2] \div g) :
                           g \in {Gcd(100, call.value[2])} })
        IN  CalibrationStore("fetchMarketDataWithYields",
                [outcome |-> "marketData",
                 solve |-> [func |-> func, a |-> Rat(-1, 50), b |-> Rat(3, 10),
                            tolerance |-> Rat(1, 100000000),
                            maxIterations |-> 100,
                            price |-> price, ticks |-> ticks,
                            call |-> IF RLe(term, Rat(1, 1000))
                                     THEN calibration.solve.call ELSE call],
                 emitted |->
                     IF RLe(term, Rat(1, 1000)) THEN <<>>
                     ELSE IF ~call.ok THEN <<>>
                     ELSE IF yieldVal = NaNNum THEN <<>>
                     ELSE << <<term, yieldVal>> >>])

SolverNext ==
    \/ BisectionMethod
    \/ YieldFromPrice
    \/ FetchMarketDataWithYields

SolverSpec == SolverInit /\ [][SolverNext]_vars

\* the yield curve is requested with up to MaxPoints points, and with the
\* largest accepted and the smallest rejected number of points, 100 and 101
MaxPoints == 4

\* getYieldCurve of src/src/analyzeNNS.js:323-362 with its nssCurve (16-33):
\* maturities 0.01 + i * step, step = maxMaturity / (numPoints - 1); nssCurve
\* raises tau and the lambdas to its floors, so that on the parameter family
\* of this model it is theta0 at every tau that is a number, and NaN at NaN;
\* a point whose rate is not finite is skipped.  `emitted` is the curve, a
\* sequence of pairs <<maturity, rate>>.
GetYieldCurve ==
    \E numPoints \in (-1..MaxPoints) \cup {100, 101},
       maxMaturity \in {RInt(3), RInt(30)} :
        CalibrationStore("getYieldCurve",
            [numPoints |-> numPoints, maxMaturity |-> maxMaturity] @@
            (IF numPoints < 0 \/ numPoints > 100
             THEN [outcome |-> "InvalidInput"]
             ELSE [outcome |-> "curve",
                   emitted |->
                     LET step == RDiv(maxMaturity, RInt(numPoints - 1))
                         t(i) == RAdd(Rat(1, 100), RMul(RInt(i), step))
                         nssCurve(tau) ==
                             IF IsFinite(tau) THEN calibration.theta0
                             ELSE NaNNum
                         all == [k \in 1..numPoints |->
                                   << t(k - 1),
                                      RMul(nssCurve(t(k - 1)), RInt(100)) >>]
                     IN  SelectSeq(all, LAMBDA p : IsFinite(p[2]))]))

\* getYieldCurve of src/unnamed/part_004:190-224 with its nssCurve (18-34):
\* as above, but fewer than 2 points are rejected
GetYieldCurvePart004 ==
    \E numPoints \in (-1..MaxPoints) \cup {100, 101},
       maxMaturity \in {RInt(3), RInt(30)} :
        CalibrationStore("getYieldCurve_part004",
            [numPoints |-> numPoints, maxMaturity |-> maxMaturity] @@
            (IF numPoints < 2 \/ numPoints > 100
             THEN [outcome |-> "InvalidInput"]
             ELSE [outcome |-> "curve",
                   emitted |->
                     LET step == RDiv(maxMaturity, RInt(numPoints - 1))
                         t(i) == RAdd(Rat(1, 100), RMul(RInt(i), step))
                         nssCurve(tau) ==
                             IF IsFinite(tau) THEN calibration.theta0
                             ELSE NaNNum
                         all == [k \in 1..numPoints |->
                                   << t(k - 1),
                                      RMul(nssCurve(t(k - 1)), RInt(100)) >>]
                     IN  SelectSeq(all, LAMBDA p : IsFinite(p[2]))]))

\* getYieldCurve of src/src/index.js:691-736 with NSSCurveCalculator.nssCurve
\* (341-348) and getSpotRate (534-541): numPoints is not validated, the
\* maturities are i * step, and every point is pushed.  The parameters are
\* those of a fit, whose bounds keep the lambdas at or above 0.1; nssCurve
\* divides (1 - exp(-tau/lambda1)) by tau/lambda1, which is 0/0 = NaN at
\* tau = 0, and a term 0 * NaN is NaN, so that on the parameter family of
\* this model the curve is NaN at tau = 0 and at tau = NaN, theta0 elsewhere.
GetYieldCurveIndex ==
    /\ RLe(Rat(1, 10), calibration.lambda1)
    /\ RLe(Rat(1, 10), calibration.lambda2)
    /\ \E numPoints \in (-1..MaxPoints) \cup {100, 101},
          maxMaturity \in {RInt(3), RInt(30)} :
        CalibrationStore("getYieldCurve_index",
            [numPoints |-> numPoints, maxMaturity |-> maxMaturity,
             outcome |-> "curve",
             emitted |->
               LET step == RDiv(maxMaturity, RInt(numPoints - 1))
                   maturity(i) == RMul(RInt(i), step)
                   nssCurve(tau) ==
                       IF IsFinite(tau) /\ tau # RInt(0)
                       THEN calibration.theta0
                       ELSE NaNNum
               IN  [k \in 1..numPoints |->
                      << maturity(k - 1),
                         RMul(nssCurve(maturity(k - 1)), RInt(100)) >>]])

CalibrationNext ==
    \/ CalculateNSSErrors
    \/ CalculateNSSErrorsPrice
    \/ ObjectiveOfCalculator
    \/ CalculateSpotRate
    \/ GetNSSParameters
    \/ GetSpotRate
    \/ CalculateSpotRateUpdated
    \/ CalculateSpotRatePart001
    \/ GetYieldCurve
    \/ GetYieldCurvePart004
    \/ GetYieldCurveIndex

CalibrationSpec == CalibrationInit /\ [][CalibrationNext]_vars

\* ------------------------------------------------------------------------
\* Properties of the calibration
\* ------------------------------------------------------------------------
\* the floor of the lambdas: 0.05 in nssCalculator.js, 0.1 in analyzeNNS.js,
\* and 0.1, the lower bound of the lambdas of the fit, in index.js
LambdaFloor ==
    IF calibration.fn = "calculateNSSErrors" THEN Rat(1, 20) ELSE Rat(1, 10)

\* C18: every calibration objective, in yield space and in price space,
\* returns the penalty 1e9 for every parameter vector with lambda1 or
\* lambda2 at or below the positive floor, without evaluating the curve,
\* and returns the sum of squared errors, never the penalty, for every
\* vector with both lambdas above the floor.
PenaltyBelowFloor ==
    calibration.fn \in {"calculateNSSErrors", "calculateNSSErrors_price",
                        "objective"} =>
        IF \/ RLe(calibration.lambda1, LambdaFloor)
           \/ RLe(calibration.lambda2, LambdaFloor)
        THEN calibration.value = RInt(Penalty) /\ calibration.curve = 0
        ELSE /\ calibration.value # RInt(Penalty)
             /\ calibration.curve > 0
             /\ calibration.value =
                    IF calibration.fn = "calculateNSSErrors_price"
                    THEN RInt(25)
                    ELSE IF calibration.theta0 = RInt(0)
                    THEN Rat(77, 10000)
                    ELSE Rat(1, 2000)

\* C19: no calibration entry point invokes the optimizer with fewer than 6
\* usable observations, counted after the invalid or filtered rows are
\* dropped; it fails first.
SixObservations ==
    calibration.fn \in {"calculateSpotRate", "getNSSParameters",
                        "calculateSpotRate_updated",
                        "calculateSpotRate_part001"} =>
        /\ calibration.points # -1 => calibration.points >= 6
        /\ calibration.valid < 6 =>
               calibration.outcome \in {"InvalidInput", "NoData",
                                        "InsufficientData", "EmptyMarketData"}

\* C20: every spot-rate entry point rejects a target maturity t outside
\* (0, 30] with an error before any curve is fitted or evaluated, and
\* accepts every t in (0, 30].
MaturityInRange ==
    calibration.fn \in {"calculateSpotRate", "getSpotRate",
                        "calculateSpotRate_updated",
                        "calculateSpotRate_part001"} =>
        IF RLt(RInt(0), calibration.t) /\ RLe(calibration.t, RInt(30))
        THEN calibration.outcome # "InvalidInput"
        ELSE /\ calibration.outcome = "InvalidInput"
             /\ calibration.points = -1
             /\ calibration.curve = 0

\* the yield-curve generators, and the points of the curve one of them
\* returned
YieldCurveFunctions ==
    {"getYieldCurve", "getYieldCurve_part004", "getYieldCurve_index"}

\* C21: getYieldCurve never emits a point whose rate is NaN or infinite:
\* every maturity at which the curve is not finite is skipped, maturity 0
\* and the non-finite step of numPoints = 1 included.
FiniteRates ==
    (calibration.fn \in YieldCurveFunctions /\ calibration.outcome = "curve") =>
        \A k \in DOMAIN calibration.emitted :
            IsFinite(calibration.emitted[k][2])

\* C22: for every accepted numPoints, getYieldCurve emits at most numPoints
\* points with strictly increasing, evenly spaced maturities, the first the
\* minimum maturity 0.01 and the last the observed maximum maturity, none
\* above the observed maximum.
EvenlySpacedToMaximum ==
    (/\ calibration.fn \in {"getYieldCurve", "getYieldCurve_part004"}
     /\ calibration.outcome = "curve") =>
        LET e == calibration.emitted
        IN  /\ Len(e) <= calibration.numPoints
            /\ \A k \in 1..(Len(e) - 1) : RLt(e[k][1], e[k + 1][1])
            /\ \A k \in 2..(Len(e) - 1) :
                   RSub(e[k + 1][1], e[k][1]) = RSub(e[k][1], e[k - 1][1])
            /\ \A k \in DOMAIN e : RLe(e[k][1], calibration.maxMaturity)
            /\ Len(e) > 0 =>
                   /\ e[1][1] = Rat(1, 100)
                   /\ e[Len(e)][1] = calibration.maxMaturity

\* ------------------------------------------------------------------------
\* Properties of the market data of the price-space calibration
\* ------------------------------------------------------------------------
\* C23: every cashflow of every bond handed to the price-space objective is
\* dated strictly after the reference date (term > 0): payments at or before
\* the reference date are skipped, and a security without a future cashflow
\* is left out of the market data.
FutureCashflowsOnly ==
    Returned("fetchMarketData") =>
        \A b \in DOMAIN results["fetchMarketData"].marketData :
            \A c \in DOMAIN results["fetchMarketData"].marketData[b].cashflows :
                /\ RLt(RInt(0),
                       results["fetchMarketData"].marketData[b].cashflows[c].term)
                /\ DateGt(results["fetchMarketData"].marketData[b].cashflows[c].date,
                          referenceDate)

\* C24: generateCashflowsAndPrice never returns a cashflow whose term is NaN
\* nor a NaN dirty price: a first interest payment date that is missing or
\* does not parse is replaced by the issue-date fallback, and a maturity or
\* issue date that does not parse is an error, on the zero-coupon path as on
\* the coupon path.
NoSilentNaN ==
    Returned("generateCashflowsAndPrice") =>
        /\ \A c \in DOMAIN results["generateCashflowsAndPrice"].cashflows :
               IsFinite(results["generateCashflowsAndPrice"].cashflows[c].term)
        /\ IsFinite(results["generateCashflowsAndPrice"].dirtyPrice)
        /\ IsValidDate(NewDateOf(sec.maturityDate))
        /\ IsValidDate(NewDateOf(sec.issueDate))

\* ------------------------------------------------------------------------
\* Properties of the fit result
\* ------------------------------------------------------------------------
\* C27: the fit result returned by getNSSParameters is a faithful diagnostic
\* of the run that produced it: the reported squared error is the objective
\* value at the returned parameters and the reported iterations is the
\* number of optimizer iterations performed.
FaithfulDiagnostics ==
    optimizer.pc = "reported" =>
        /\ optimizer.report.squaredError =
               Objective(optimizer.objective, optimizer.x)
        /\ optimizer.report.iterations = optimizer.iterations

\* ------------------------------------------------------------------------
\* Properties of one iteration of the optimizer
\* ------------------------------------------------------------------------
\* the point centroid + coefficient * (toward - centroid), clipped
Candidate(centroid, coefficient, toward, bounds) ==
    clipToBounds([j \in DOMAIN centroid |->
                     RAdd(centroid[j],
                          RMul(coefficient, RSub(toward[j], centroid[j])))],
                 bounds)

\* the simplex S with values V after one transformation is T with values W,
\* as the rules of reflection, expansion, contraction and shrink demand
OneTransformation(name, bounds, S, V, T, W) ==
    LET n  == Len(S) - 1
        c  == Centroid(S, n)
        xr == clipToBounds([j \in 1..n |->
                               RAdd(c[j], RSub(c[j], S[n + 1][j]))], bounds)
        fr == Objective(name, xr)
        xe == Candidate(c, RInt(2), xr, bounds)
        fe == Objective(name, xe)
        xc == Candidate(c, Rat(1, 2), S[n + 1], bounds)
        fc == Objective(name, xc)
        Replaced(x, f) == /\ T = [S EXCEPT ![n + 1] = x]
                          /\ W = [V EXCEPT ![n + 1] = f]
    IN  IF RLe(V[1], fr) /\ RLt(fr, V[n]) THEN Replaced(xr, fr)
        ELSE IF RLt(fr, V[1])
        THEN (IF RLt(fe, fr) THEN Replaced(xe, fe) ELSE Replaced(xr, fr))
        ELSE IF RLt(fc, V[n + 1]) THEN Replaced(xc, fc)
        ELSE /\ T[1] = S[1]
             /\ W[1] = V[1]
             /\ \A i \in 2..(n + 1) :
                    /\ T[i] = [j \in 1..n |->
                                  RAdd(S[1][j],
                                       RMul(Rat(1, 2), RSub(S[i][j], S[1][j])))]
                    /\ W[i] = Objective(name, T[i])

\* C28: in every non-terminating iteration of nelderMead, with sorted values
\* f0 <= ... <= fn and reflected value fr, exactly one transformation is
\* applied: the reflected point replaces the worst vertex iff
\* f0 <= fr < f(n-1); if fr < f0 the expanded point replaces it when its
\* value is below fr, the reflected point otherwise; if fr >= f(n-1) the
\* contracted point replaces it iff its value is below fn; otherwise every
\* vertex but vertex 0 is shrunk halfway toward vertex 0.  Outside a shrink
\* only the worst vertex changes; in a shrink vertex 0 and its value stay.
TransformationRules ==
    [][ (optimizer.pc = "loop" /\ optimizer'.iter = optimizer.iter + 1) =>
            LET indices == SortedIndices(optimizer.values)
                S == [i \in DOMAIN indices |-> optimizer.simplex[indices[i]]]
                V == [i \in DOMAIN indices |-> optimizer.values[indices[i]]]
            IN  /\ \A i \in 1..(Len(V) - 1) : RLe(V[i], V[i + 1])
                /\ ~RLt(RSub(V[Len(V)], V[1]), optimizer.tol)
                /\ OneTransformation(optimizer.objective, optimizer.bounds,
                                     S, V, optimizer'.simplex,
                                     optimizer'.values) ]_vars

\* a shrink has been applied after an iteration of another kind
TransformationRulesWitness ==
    /\ optimizer.pc = "loop"
    /\ optimizer.branch = "shrink"
    /\ optimizer.iterations >= 2

\* the least cached value of the simplex
MinValue(values) ==
    CHOOSE v \in {values[i] : i \in DOMAIN values} :
        \A i \in DOMAIN values : RLe(v, values[i])

\* C29: across all iterations of nelderMead the simplex keeps exactly n + 1
\* vertices, each cached value is the objective at its vertex, and the
\* least cached value of the simplex never increases from one iteration to
\* the next.
SimplexInvariant ==
    /\ [](/\ Len(optimizer.simplex) = Len(optimizer.initial) + 1
          /\ Len(optimizer.values) = Len(optimizer.simplex)
          /\ \A i \in DOMAIN optimizer.simplex :
                 /\ Len(optimizer.simplex[i]) = Len(optimizer.initial)
                 /\ optimizer.values[i] =
                        Objective(optimizer.objective, optimizer.simplex[i]))
    /\ [][RLe(MinValue(optimizer'.values), MinValue(optimizer.values))]_vars

\* a contraction has lowered the least cached value of the simplex
SimplexInvariantWitness ==
    /\ optimizer.branch = "contract"
    /\ optimizer.iterations >= 2
    /\ optimizer.values[Len(optimizer.values)] = MinValue(optimizer.values)
    /\ RLt(optimizer.values[Len(optimizer.values)], optimizer.values[1])

\* ------------------------------------------------------------------------
\* The yield solver
\* ------------------------------------------------------------------------
\* the objective is strictly positive at both of a and b, or strictly
\* negative at both (NaN has no sign)
SameStrictSign(func, a, b) ==
    Sign(Func(func, a)[1]) * Sign(Func(func, b)[1]) = 1

Within(x, lo, hi) == RLe(lo, x) /\ RLe(x, hi)

\* C25: bisectionMethod fails with the no-root error exactly when the
\* objective has the same strict sign at both ends of the initial bracket
\* and at both ends of the widened bracket [-0.05, 0.50]; when it does not
\* fail, the bracket it starts from is the initial one, or the widened one
\* if the initial one shows no sign change, and every midpoint it evaluates
\* and the value it returns lie in that bracket.
BisectionContract ==
    calibration.fn = "bisectionMethod" =>
        LET q == calibration.solve
            r == q.call
            fails == /\ SameStrictSign(q.func, q.a, q.b)
                     /\ SameStrictSign(q.func, Rat(-1, 20), Rat(1, 2))
            settled == IF SameStrictSign(q.func, q.a, q.b)
                       THEN <<Rat(-1, 20), Rat(1, 2)>> ELSE <<q.a, q.b>>
        IN  /\ r.ok <=> ~fails
            /\ ~r.ok => r.error = "NoRootInInterval"
            /\ r.ok =>
                  /\ <<r.lo, r.hi>> = settled
                  /\ Within(r.value, settled[1], settled[2])
                  /\ \A k \in 1..Len(r.mids) :
                        Within(r.mids[k], settled[1], settled[2])

\* a search that found no sign change in the initial bracket, widened it, and
\* halved the widened bracket at least twice before it returned
BisectionContractWitness ==
    /\ calibration.fn = "bisectionMethod"
    /\ calibration.solve.call.ok
    /\ SameStrictSign(calibration.solve.func, calibration.solve.a,
                      calibration.solve.b)
    /\ calibration.solve.call.lo = Rat(-1, 20)
    /\ calibration.solve.call.halvings >= 2
    /\ Len(calibration.solve.call.mids) >= 3

\* C30: a call of yieldFromPrice ends after at most 100 turns of the Newton
\* loop and at most 100 halvings; with maturity after settlement it throws
\* or returns a yield in [-0.05, 0.50]; with maturity at or before
\* settlement it throws before any turn.
BoundedSolver ==
    calibration.fn = "yieldFromPrice" =>
        LET q == calibration.solve
            r == q.call
        IN  /\ r.newton \in 0..100
            /\ r.halvings \in 0..100
            /\ Len(r.mids) <= 100
            /\ q.ticks > 0 =>
                  IF r.ok THEN Within(r.value, Rat(-1, 20), Rat(1, 2))
                  ELSE r.error \in {"NoRootInInterval",
                                    "MaturityNotAfterSettlement"}
            /\ q.ticks <= 0 =>
                  /\ ~r.ok
                  /\ r.error = "MaturityNotAfterSettlement"
                  /\ r.newton = 0
                  /\ r.halvings = 0
                  /\ r.mids = <<>>

\* a call that used all 100 turns of the Newton loop, went on to the
\* bisection, and returned after 20 halvings or more
BoundedSolverWitness ==
    /\ calibration.fn = "yieldFromPrice"
    /\ calibration.solve.ticks > 0
    /\ calibration.solve.call.ok
    /\ calibration.solve.call.newton = 100
    /\ calibration.solve.call.halvings >= 20

\* C26: when the yield solver fails for a security, fetchMarketDataWithYields
\* does not return market data: the failure reaches its caller.
SolverFailureSurfaced ==
    /\ calibration.fn = "fetchMarketDataWithYields"
    /\ ~calibration.solve.call.ok
    /\ calibration.solve.call.error
          \in {"NoRootInInterval", "MaturityNotAfterSettlement"}
    => calibration.outcome # "marketData"

====
